---- MODULE Spec2Model ----
(***************************************************************************)
(* Meta Ads MCP server: the API client (src/src/client.ts), its error      *)
(* taxonomy (utils/errors.ts) and the credential handling                  *)
(* (src/src/types/env.ts, src/src/index.ts), as a state machine.           *)
(*                                                                         *)
(* JavaScript values are tagged records, so that undefined, null, 0, ""    *)
(* and false stay distinct and truthiness, String() and JSON.stringify     *)
(* are computed the way the runtime computes them.                         *)
(***************************************************************************)
EXTENDS Integers, Sequences, FiniteSets, TLC

\* client:   the client bound to the inbound call (NoClient before it is made)
\* pc:       where the inbound call stands
\* op:       the operation running and what it does once request returns
\* inflight: the call of fetch being awaited
\* log:      method and endpoint of every fetch issued in this inbound call
\* resp:     the responses received in this inbound call
\* outcome:  what the operation returned or threw
VARIABLES client, pc, op, inflight, log, resp, outcome

vars == <<client, pc, op, inflight, log, resp, outcome>>

(***************************************************************************)
(* Bounds of the model.                                                    *)
(***************************************************************************)
\* upstream error codes range over -1..MaxCode
MaxCode == 700
\* Retry-After header values are the strings over HdrAlphabet of at most this length
MaxHdrLen == 2
\* free-form parameter maps have at most this many entries
MaxParams == 3
\* the largest page size a caller asks for
MaxLimit == 500
\* the longest account id
MaxIdLen == 5

(***************************************************************************)
(* JavaScript values.                                                      *)
(***************************************************************************)
Undef == [t |-> "undefined"]
Null == [t |-> "null"]
NaN == [t |-> "nan"]
Num(n) == [t |-> "num", v |-> n]
Str(s) == [t |-> "str", v |-> s]
Bool(b) == [t |-> "bool", v |-> b]
\* an array: the sequence of its elements
Arr(a) == [t |-> "arr", v |-> a]
\* an object: its members <<key, value>> in insertion order
Obj(m) == [t |-> "obj", v |-> m]

\* ToBoolean: what `if (v)`, `!v`, `v || d` and `v ? a : b` test
Truthy(v) ==
  CASE v.t \in {"undefined", "null", "nan"} -> FALSE
    [] v.t = "num" -> v.v # 0
    [] v.t = "str" -> v.v # ""
    [] v.t = "bool" -> v.v
    [] OTHER -> TRUE

\* a || b
OrElse(a, b) == IF Truthy(a) THEN a ELSE b

\* o.k for a value o that is neither null nor undefined: the member of an
\* object, undefined for a missing member and for members of primitives
\* and arrays (no key used here is "length" or an index)
Get(o, k) ==
  IF o.t = "obj" /\ \E i \in 1..Len(o.v) : o.v[i][1] = k
  THEN o.v[CHOOSE i \in 1..Len(o.v) : o.v[i][1] = k /\ \A j \in 1..(i - 1) : o.v[j][1] # k][2]
  ELSE Undef

\* o.k throws a TypeError when o is null or undefined
Nullish(o) == o.t \in {"undefined", "null"}

\* String(v) for the primitives
JSString(v) ==
  CASE v.t = "undefined" -> "undefined"
    [] v.t = "null" -> "null"
    [] v.t = "nan" -> "NaN"
    [] v.t = "num" -> ToString(v.v)
    [] v.t = "str" -> v.v
    [] v.t = "bool" -> IF v.v THEN "true" ELSE "false"
    [] OTHER -> "[object Object]"

RECURSIVE JSONStringify(_), JSONElements(_, _), JSONMembers(_, _)
\* JSON.stringify(v) (strings here hold no character that needs escaping)
JSONStringify(v) ==
  CASE v.t = "str" -> "\"" \o v.v \o "\""
    [] v.t = "num" -> ToString(v.v)
    [] v.t = "bool" -> IF v.v THEN "true" ELSE "false"
    [] v.t \in {"null", "nan", "undefined"} -> "null"
    [] v.t = "arr" -> "[" \o JSONElements(v.v, 1) \o "]"
    [] OTHER -> "{" \o JSONMembers(v.v, 1) \o "}"
JSONElements(a, i) ==
  IF i > Len(a) THEN ""
  ELSE (IF i > 1 THEN "," ELSE "") \o JSONStringify(a[i]) \o JSONElements(a, i + 1)
JSONMembers(m, i) ==
  IF i > Len(m) THEN ""
  ELSE (IF i > 1 THEN "," ELSE "") \o "\"" \o m[i][1] \o "\":"
         \o JSONStringify(m[i][2]) \o JSONMembers(m, i + 1)

\* an object literal whose optional members are left out when absent
Absent == [t |-> "absent"]
RECURSIVE Present(_)
Present(m) ==
  IF m = <<>> THEN <<>>
  ELSE IF m[1][2] = Absent THEN Present(Tail(m)) ELSE <<m[1]>> \o Present(Tail(m))
ObjOf(m) == Obj(Present(m))

\* s.includes(n)
Includes(s, n) ==
  \E i \in 1..(Len(s) - Len(n) + 1) : SubSeq(s, i, i + Len(n) - 1) = n

(***************************************************************************)
(* utils/errors.ts: the error classes.  An error is a record; the members  *)
(* a class does not set are undefined.                                     *)
(***************************************************************************)
NoExtra ==
  [errorSubcode |-> Undef, errorUserTitle |-> Undef, errorUserMsg |-> Undef,
   fbTraceId |-> Undef]

\* new MetaAdsApiError(message, statusCode, code, retryable, extra)
MetaAdsApiError(message, statusCode, code, retryable, extra) ==
  [name |-> "MetaAdsApiError",
   message |-> message,
   statusCode |-> statusCode,
   code |-> OrElse(code, Str("META_ADS_ERROR")),
   retryable |-> retryable,
   errorSubcode |-> extra.errorSubcode,
   errorUserTitle |-> extra.errorUserTitle,
   errorUserMsg |-> extra.errorUserMsg,
   fbTraceId |-> extra.fbTraceId,
   retryAfterSeconds |-> Undef,
   details |-> Undef]

\* RateLimitError constructed as not retryable
RateLimitError_NotRetryable(message, retryAfterSeconds, fbTraceId) ==
  [MetaAdsApiError(message, Num(429), Str("RATE_LIMIT_EXCEEDED"), FALSE,
                   [NoExtra EXCEPT !.fbTraceId = fbTraceId])
     EXCEPT !.name = "RateLimitError", !.retryAfterSeconds = retryAfterSeconds]

RateLimitError(message, retryAfterSeconds, fbTraceId) ==
  [MetaAdsApiError(message, Num(429), Str("RATE_LIMIT_EXCEEDED"), TRUE,
                   [NoExtra EXCEPT !.fbTraceId = fbTraceId])
     EXCEPT !.name = "RateLimitError", !.retryAfterSeconds = retryAfterSeconds]

\* AuthenticationError with status 400 in place of 401
AuthenticationError_Status400(message, errorSubcode, fbTraceId) ==
  [MetaAdsApiError(message, Num(400), Str("AUTHENTICATION_FAILED"), FALSE,
                   [NoExtra EXCEPT !.errorSubcode = errorSubcode, !.fbTraceId = fbTraceId])
     EXCEPT !.name = "AuthenticationError"]

AuthenticationError(message, errorSubcode, fbTraceId) ==
  [MetaAdsApiError(message, Num(401), Str("AUTHENTICATION_FAILED"), FALSE,
                   [NoExtra EXCEPT !.errorSubcode = errorSubcode, !.fbTraceId = fbTraceId])
     EXCEPT !.name = "AuthenticationError"]

PermissionError(message, errorSubcode, fbTraceId) ==
  [MetaAdsApiError(message, Num(403), Str("PERMISSION_DENIED"), FALSE,
                   [NoExtra EXCEPT !.errorSubcode = errorSubcode, !.fbTraceId = fbTraceId])
     EXCEPT !.name = "PermissionError"]

\* new NotFoundError(entityType, id, fbTraceId)
NotFoundError(entityType, id, fbTraceId) ==
  [MetaAdsApiError(Str(entityType \o " with ID '" \o id \o "' not found"), Num(404),
                   Str("NOT_FOUND"), FALSE, [NoExtra EXCEPT !.fbTraceId = fbTraceId])
     EXCEPT !.name = "NotFoundError"]

ValidationError(message, details, fbTraceId) ==
  [MetaAdsApiError(message, Num(400), Str("VALIDATION_ERROR"), FALSE,
                   [NoExtra EXCEPT !.fbTraceId = fbTraceId])
     EXCEPT !.name = "ValidationError", !.details = details]

\* an Error outside the taxonomy (TypeError, Error), as thrown by the runtime
PlainError(name, message) ==
  [name |-> name, message |-> Str(message)]

\* error instanceof MetaAdsApiError
IsApiError(e) ==
  e.name \in {"MetaAdsApiError", "RateLimitError", "AuthenticationError",
              "PermissionError", "NotFoundError", "ValidationError"}

(***************************************************************************)
(* utils/errors.ts: parseMetaApiError.  The result is the error returned,  *)
(* or the TypeError the property access errorBody.error throws.            *)
(***************************************************************************)
\* IsPermissionCode with the upper end of the range included
IsPermissionCode_Inclusive(code) ==
  code = Num(10) \/ (Truthy(code) /\ code.t = "num" /\ code.v >= 200 /\ code.v <= 300)

\* the test of the Permission branch: code === 10 || (code && code >= 200 && code < 300)
IsPermissionCode(code) ==
  code = Num(10) \/ (Truthy(code) /\ code.t = "num" /\ code.v >= 200 /\ code.v < 300)

\* the test of the RateLimit branch
IsRateLimitCode(code) ==
  code \in {Num(4), Num(17), Num(32), Num(613)}

\* the machine code of the default branch: code ? String(code) : 'UNKNOWN_ERROR'
GenericCode(code) ==
  IF Truthy(code) THEN Str(JSString(code)) ELSE Str("UNKNOWN_ERROR")

\* the message every branch uses: error.message || 'Unknown error'
ErrorMessage(error) == OrElse(Get(error, "message"), Str("Unknown error"))

parseMetaApiError(errorBody, statusCode) ==
  IF Nullish(errorBody)
  THEN PlainError("TypeError", "Cannot read properties of " \o JSString(errorBody))
  ELSE
    LET error == Get(errorBody, "error") IN
    IF ~Truthy(error)
    THEN MetaAdsApiError(Str("API error: " \o JSString(statusCode)), statusCode,
                         Str("UNKNOWN_ERROR"), FALSE, NoExtra)
    ELSE
      LET message == ErrorMessage(error)
          code == Get(error, "code")
          errorSubcode == Get(error, "error_subcode")
          errorUserTitle == Get(error, "error_user_title")
          errorUserMsg == Get(error, "error_user_msg")
          fbTraceId == Get(error, "fbtrace_id")
      IN
      IF code = Num(190) THEN AuthenticationError(message, errorSubcode, fbTraceId)
      ELSE IF IsPermissionCode(code) THEN PermissionError(message, errorSubcode, fbTraceId)
      ELSE IF IsRateLimitCode(code) THEN RateLimitError(message, Num(60), fbTraceId)
      ELSE IF code = Num(100) THEN ValidationError(message, Obj(<<>>), fbTraceId)
      ELSE MetaAdsApiError(message, statusCode, GenericCode(code), FALSE,
                           [errorSubcode |-> errorSubcode,
                            errorUserTitle |-> errorUserTitle,
                            errorUserMsg |-> errorUserMsg,
                            fbTraceId |-> fbTraceId])

(***************************************************************************)
(* types/env.ts and index.ts: the credentials of one inbound call.         *)
(***************************************************************************)
\* parseTenantCredentials: headers.get(h) is null for a header not sent
parseTenantCredentials(headers) ==
  [accessToken |-> OrElse(headers.token, Str("")),
   apiVersion |-> OrElse(headers.version, Undef)]

\* validateCredentials: the Error it throws, or nothing
validateCredentials(credentials) ==
  IF ~Truthy(credentials.accessToken)
  THEN [kind |-> "threw",
        error |-> PlainError("Error", "Missing credentials. Provide X-Meta-Access-Token header.")]
  ELSE [kind |-> "returned", value |-> Undef]

(***************************************************************************)
(* client.ts: the client and its request primitive.                        *)
(***************************************************************************)
META_API_BASE_URL == "https://graph.facebook.com"
DEFAULT_API_VERSION == Str("v21.0")

DEFAULT_AD_ACCOUNT_FIELDS ==
  Str("id,account_id,name,account_status,amount_spent,balance,business,currency,timezone_name,created_time")
DEFAULT_CAMPAIGN_FIELDS ==
  Str("id,account_id,name,objective,status,effective_status,buying_type,daily_budget,lifetime_budget,budget_remaining,bid_strategy,special_ad_categories,start_time,stop_time,created_time,updated_time")
DEFAULT_ADSET_FIELDS ==
  Str("id,account_id,campaign_id,name,status,effective_status,billing_event,optimization_goal,bid_amount,bid_strategy,daily_budget,lifetime_budget,budget_remaining,start_time,end_time,targeting,promoted_object,created_time,updated_time")
DEFAULT_AD_FIELDS ==
  Str("id,account_id,adset_id,campaign_id,name,status,effective_status,creative,created_time,updated_time")
DEFAULT_CREATIVE_FIELDS ==
  Str("id,account_id,name,title,body,call_to_action_type,image_hash,image_url,video_id,thumbnail_url,object_story_spec,object_type,status,created_time")
DEFAULT_AUDIENCE_FIELDS ==
  Str("id,account_id,name,description,subtype,approximate_count_lower_bound,approximate_count_upper_bound,data_source,delivery_status,operation_status,retention_days,time_created,time_updated")
DEFAULT_PIXEL_FIELDS ==
  Str("id,name,code,creation_time,creator,data_use_setting,enable_automatic_matching,last_fired_time,owner_business,owner_ad_account")
\* the field list getReachFrequencyPrediction asks for
REACH_FREQUENCY_FIELDS ==
  Str("id,account_id,campaign_id,status,time_created,time_updated,external_reach,external_budget,external_impression,reach_curve,grp_curve")

NoClient == [bound |-> FALSE]

\* new MetaAdsClientImpl(credentials)
MetaAdsClientImpl(credentials) ==
  [bound |-> TRUE,
   credentials |-> credentials,
   baseUrl |-> META_API_BASE_URL,
   apiVersion |-> OrElse(credentials.apiVersion, DEFAULT_API_VERSION)]

\* createMetaAdsClient: the client, or the AuthenticationError thrown
createMetaAdsClient(credentials) ==
  IF ~Truthy(credentials.accessToken)
  THEN [kind |-> "threw",
        error |-> AuthenticationError(Str("Access token is required"), Undef, Undef)]
  ELSE [kind |-> "returned", value |-> MetaAdsClientImpl(credentials)]

\* URLSearchParams.set: replace the value of the first pair named key (and
\* drop later ones), or append a new pair
RECURSIVE DropKey(_, _)
DropKey(q, key) ==
  IF q = <<>> THEN <<>>
  ELSE IF q[1][1] = key THEN DropKey(Tail(q), key) ELSE <<q[1]>> \o DropKey(Tail(q), key)
SearchParamsSet(q, key, value) ==
  IF \E i \in 1..Len(q) : q[i][1] = key
  THEN LET i == CHOOSE i \in 1..Len(q) : q[i][1] = key /\ \A j \in 1..(i - 1) : q[j][1] # key
       IN SubSeq(q, 1, i - 1) \o << <<key, value>> >> \o DropKey(SubSeq(q, i + 1, Len(q)), key)
  ELSE Append(q, <<key, value>>)

\* getAuthParams
getAuthParams(c) == << <<"access_token", JSString(c.credentials.accessToken)>> >>

\* the test that keeps an entry of params out of the query
\* (SkipParam_Falsy: every falsy value skipped, as `if (value)` would)
SkipParam_Falsy(value) == ~Truthy(value)
SkipParam(value) == value = Undef

\* what request puts in the query for a value: arrays JSON-encoded, the rest String(value)
ParamString(value) ==
  IF value.t = "arr" THEN JSONStringify(value) ELSE JSString(value)

\* the loop over Object.entries(params), from entry i on
RECURSIVE AddParams(_, _, _)
AddParams(q, members, i) ==
  IF i > Len(members) THEN q
  ELSE AddParams(IF SkipParam(members[i][2]) THEN q
                 ELSE SearchParamsSet(q, members[i][1], ParamString(members[i][2])),
                 members, i + 1)

\* searchParams as request builds it; params is an object, or undefined
SearchParams(c, params) ==
  IF Truthy(params) THEN AddParams(getAuthParams(c), params.v, 1) ELSE getAuthParams(c)

\* the call of fetch that request makes: method (GET when options has none),
\* the URL in its parts, and the headers
FetchCall(c, endpoint, method, params) ==
  [via |-> "request",
   method |-> method,
   base |-> c.baseUrl,
   version |-> JSString(c.apiVersion),
   endpoint |-> endpoint,
   query |-> SearchParams(c, params),
   headers |-> << <<"Content-Type", "application/json">> >>,
   form |-> <<>>,
   params |-> params]

\* the value of a query parameter, or Absent
QueryGet(q, key) ==
  IF \E i \in 1..Len(q) : q[i][1] = key
  THEN Str(q[CHOOSE i \in 1..Len(q) : q[i][1] = key][2])
  ELSE Absent

(***************************************************************************)
(* Number.parseInt(s, 10): leading blanks skipped, an optional sign, then  *)
(* the longest run of digits; NaN when there is no digit.                  *)
(***************************************************************************)
Digits == {"0", "1", "2", "3", "4", "5", "6", "7", "8", "9"}
DigitValue(c) ==
  CASE c = "0" -> 0 [] c = "1" -> 1 [] c = "2" -> 2 [] c = "3" -> 3 [] c = "4" -> 4
    [] c = "5" -> 5 [] c = "6" -> 6 [] c = "7" -> 7 [] c = "8" -> 8 [] OTHER -> 9
CharAt(s, i) == SubSeq(s, i, i)

RECURSIVE SkipBlanks(_, _), DigitsEnd(_, _), DigitsValue(_, _, _)
SkipBlanks(s, i) ==
  IF i <= Len(s) /\ CharAt(s, i) = " " THEN SkipBlanks(s, i + 1) ELSE i
\* the index after the run of digits that starts at i
DigitsEnd(s, i) ==
  IF i <= Len(s) /\ CharAt(s, i) \in Digits THEN DigitsEnd(s, i + 1) ELSE i
\* the value of the digits s[i..j-1]
DigitsValue(s, i, j) ==
  IF i >= j THEN 0 ELSE DigitsValue(s, i, j - 1) * 10 + DigitValue(CharAt(s, j - 1))

parseInt(s) ==
  LET i == SkipBlanks(s, 1)
      signed == i <= Len(s) /\ CharAt(s, i) \in {"-", "+"}
      d == IF signed THEN i + 1 ELSE i
      e == DigitsEnd(s, d)
  IN IF e = d THEN NaN
     ELSE Num((IF signed /\ CharAt(s, i) = "-" THEN 0 - 1 ELSE 1) * DigitsValue(s, d, e))

(***************************************************************************)
(* client.ts: what request does with the response of fetch.  A response is *)
(* its status, its Retry-After header (null when not sent) and its body:   *)
(* a JSON value, or text that is no JSON.                                  *)
(***************************************************************************)
Unparsable == [t |-> "unparsable"]
Threw(e) == [kind |-> "threw", error |-> e]
Returned(v) == [kind |-> "returned", value |-> v]

\* response.ok
ResponseOk(r) == r.status.v >= 200 /\ r.status.v <= 299

\* the retry-after of the 429 branch: retryAfter ? Number.parseInt(retryAfter, 10) : 60
RetryAfterSeconds(retryAfter) ==
  IF Truthy(retryAfter) THEN parseInt(retryAfter.v) ELSE Num(60)

\* await response.json().catch(() => ({}))
ErrorBodyOf(r) == IF r.body = Unparsable THEN Obj(<<>>) ELSE r.body

\* NoContent with the 204 branch never taken
NoContent_Never(r) == FALSE

\* the test of the 204 branch: response.status === 204
NoContent(r) == r.status = Num(204)

\* HandleResponse with the Retry-After header read for every RateLimit error
HandleResponse_HeaderAlways(r) ==
  IF r.status = Num(429)
  THEN Threw(RateLimitError(Str("Rate limit exceeded"), RetryAfterSeconds(r.retryAfter), Undef))
  ELSE IF ~ResponseOk(r)
  THEN LET e == parseMetaApiError(ErrorBodyOf(r), r.status) IN
       Threw(IF e.name = "RateLimitError"
             THEN [e EXCEPT !.retryAfterSeconds = RetryAfterSeconds(r.retryAfter)]
             ELSE e)
  ELSE IF NoContent(r)
  THEN Returned(Undef)
  ELSE IF r.body = Unparsable
  THEN Threw(PlainError("SyntaxError", "Unexpected token in JSON"))
  ELSE Returned(r.body)

\* request, from the response on: the value it returns or the error it throws
HandleResponse(r) ==
  IF r.status = Num(429)
  THEN Threw(RateLimitError(Str("Rate limit exceeded"), RetryAfterSeconds(r.retryAfter), Undef))
  ELSE IF ~ResponseOk(r)
  THEN Threw(parseMetaApiError(ErrorBodyOf(r), r.status))
  ELSE IF NoContent(r)
  THEN Returned(Undef)
  ELSE IF r.body = Unparsable
  THEN Threw(PlainError("SyntaxError", "Unexpected token in JSON"))
  ELSE Returned(r.body)

\* FormCall with the token in the query of the URL, as request sends it
FormCall_QueryToken(c, endpoint, formData) ==
  [via |-> "postForm",
   method |-> "POST",
   base |-> c.baseUrl,
   version |-> JSString(c.apiVersion),
   endpoint |-> endpoint,
   query |-> getAuthParams(c),
   headers |-> <<>>,
   form |-> formData,
   params |-> Undef]

\* the call of fetch that postForm makes: the token goes in the form, the
\* URL has no query, and no header is set
FormCall(c, endpoint, formData) ==
  [via |-> "postForm",
   method |-> "POST",
   base |-> c.baseUrl,
   version |-> JSString(c.apiVersion),
   endpoint |-> endpoint,
   query |-> <<>>,
   headers |-> <<>>,
   form |-> Append(formData, <<"access_token", JSString(c.credentials.accessToken)>>),
   params |-> Undef]

\* postForm, from the response on: there is no test of the status but
\* response.ok
HandleFormResponse(r) ==
  IF ~ResponseOk(r)
  THEN Threw(parseMetaApiError(ErrorBodyOf(r), r.status))
  ELSE IF r.body = Unparsable
  THEN Threw(PlainError("SyntaxError", "Unexpected token in JSON"))
  ELSE Returned(r.body)

\* what the primitive that made the call does with the response
Handle(call, r) ==
  IF call.via = "postForm" THEN HandleFormResponse(r) ELSE HandleResponse(r)

(***************************************************************************)
(* Inputs: upstream error bodies, responses, credentials.                  *)
(***************************************************************************)
Codes == {Num(c) : c \in (0 - 1)..MaxCode}

\* error objects as the upstream sends them: every member optional
ErrorObjects ==
  {ObjOf(<< <<"message", m>>, <<"type", Str("OAuthException")>>, <<"code", c>>,
            <<"error_subcode", s>>, <<"error_user_title", ut>>,
            <<"error_user_msg", um>>, <<"fbtrace_id", f>> >>) :
     m \in {Absent, Str(""), Str("Invalid parameter")},
     c \in Codes \cup {Absent},
     s \in {Absent, Num(463)},
     ut \in {Absent, Str("Title")},
     um \in {Absent, Str("Please retry")},
     f \in {Absent, Str("AbCdEf")}}

\* what a body can hold under the key error when it is no error object
NonObjectErrors ==
  {Null, Bool(FALSE), Num(0), Str(""), Str("boom"), Num(1), Bool(TRUE), Arr(<<>>)}

\* the bodies parseMetaApiError is declared for: objects (Record<string, unknown>)
ClassifyBodies ==
  {Obj(<<>>), Obj(<< <<"data", Arr(<<>>)>> >>)}
    \cup {Obj(<< <<"error", e>> >>) : e \in ErrorObjects \cup NonObjectErrors}

ErrorStatuses == {Num(400), Num(403), Num(500)}

\* an upstream error body with a code and a message
ErrorBody(code, message) ==
  Obj(<< <<"error", Obj(<< <<"message", Str(message)>>, <<"code", Num(code)>>,
                           <<"fbtrace_id", Str("AbCdEf")>> >>)>> >>)

\* the bodies a response of the upstream can carry, any status
Bodies ==
  {Unparsable, Null, Str("Bad Gateway"), Num(7), Bool(FALSE), Arr(<<>>), Obj(<<>>),
   Obj(<< <<"id", Str("120")>> >>),
   Obj(<< <<"error", Null>> >>),
   Obj(<< <<"error", Str("boom")>> >>),
   ErrorBody(190, "Invalid OAuth access token"),
   ErrorBody(200, "Permissions error"),
   ErrorBody(4, "Application request limit reached"),
   ErrorBody(17, "User request limit reached"),
   ErrorBody(32, "Page request limit reached"),
   ErrorBody(613, "Calls to this api have exceeded the rate limit"),
   ErrorBody(100, "Invalid parameter"),
   ErrorBody(2, "Service temporarily unavailable")}

\* Retry-After values: the strings over these characters, up to MaxHdrLen long
HdrAlphabet == {"3", "0", "x", "-"}
RECURSIVE StringsUpTo(_)
StringsUpTo(n) ==
  IF n = 0 THEN {""}
  ELSE LET shorter == StringsUpTo(n - 1) IN
       shorter \cup {s \o c : s \in shorter, c \in HdrAlphabet}
RetryAfterHeaders == {Null} \cup {Str(s) : s \in StringsUpTo(MaxHdrLen)}

\* responses to the request primitive: every header with a 429 and with a
\* 400, every body with every status
Responses ==
  [status : {Num(429), Num(400)}, retryAfter : RetryAfterHeaders, body : Bodies]
    \cup [status : {Num(200), Num(201), Num(204), Num(404), Num(500)},
          retryAfter : {Null, Str("30")},
          body : Bodies]

\* access tokens of two tenants
Tokens == {Str("EAAB-tenant-1"), Str("EAAB-tenant-2")}

NoOp == [name |-> "none"]
NoCall == [via |-> "none"]
NoOutcome == [kind |-> "none"]

(***************************************************************************)
(* The classifier alone: Init draws a body and a status, Classify applies  *)
(* parseMetaApiError to them.                                              *)
(***************************************************************************)
InitClassify ==
  /\ client = NoClient
  /\ pc = "classify"
  /\ op = [name |-> "parseMetaApiError"]
  /\ inflight = NoCall
  /\ log = <<>>
  /\ \E b \in ClassifyBodies, s \in ErrorStatuses :
       resp = << [status |-> s, retryAfter |-> Null, body |-> b] >>
  /\ outcome = NoOutcome

Classify ==
  /\ pc = "classify"
  /\ pc' = "classified"
  /\ outcome' = Returned(parseMetaApiError(resp[1].body, resp[1].status))
  /\ UNCHANGED <<client, op, inflight, log, resp>>

NextClassify == Classify

SpecClassify == InitClassify /\ [][NextClassify]_vars

(***************************************************************************)
(* client.ts: an operation of the client runs up to its first await of     *)
(* fetch, and goes on when fetch resolves.  op.next is what the operation  *)
(* does with the value request returns.                                    *)
(***************************************************************************)
ReturnIt == [kind |-> "return"]
\* create: return this.getX(result.id)
GetCreated(fields) == [kind |-> "getCreated", fields |-> fields]
\* update: return this.getX(id)
GetSame(id, fields) == [kind |-> "getSame", id |-> id, fields |-> fields]

\* the call of request that getCampaign, getAdSet, ... make for an id with
\* no field list given: fields || DEFAULT_..._FIELDS
GetCall(c, id, fields) ==
  FetchCall(c, "/" \o id, "GET", Obj(<< <<"fields", fields>> >>))

\* what the log keeps of a call of fetch
Sent(call) == [method |-> call.method, endpoint |-> call.endpoint]

\* an operation called with args calls request(endpoint, {method}, params)
\* and awaits it
Issue(name, args, method, endpoint, params, next) ==
  /\ pc = "ready"
  /\ pc' = "fetch"
  /\ op' = [name |-> name, args |-> args, next |-> next]
  /\ inflight' = FetchCall(client, endpoint, method, params)
  /\ log' = <<Sent(inflight')>>
  /\ resp' = <<>>
  /\ outcome' = NoOutcome
  /\ UNCHANGED client

\* what a create operation does once its POST has returned result
\* (AfterCreate_BareId: the result of the POST returned as it is)
AfterCreate_BareId(result) ==
  [kind |-> "done", outcome |-> Returned(result)]
AfterCreate(result) ==
  IF Nullish(result)
  THEN [kind |-> "done",
        outcome |-> Threw(PlainError("TypeError", "Cannot read properties of " \o JSString(result)))]
  ELSE [kind |-> "get", id |-> JSString(Get(result, "id"))]

\* what an update operation does once its POST has returned
\* (AfterUpdate_NoGet: the result of the POST returned as it is)
AfterUpdate_NoGet(result) ==
  [kind |-> "done", outcome |-> Returned(result)]
AfterUpdate(result) ==
  [kind |-> "get", id |-> op.next.id]

\* uploadAdImage: Object.values(result.images)[0]
FirstImage == [kind |-> "firstImage"]

\* the first of the images of the result, or the TypeError that reading
\* result.images or Object.values of undefined throws
FirstImageOf(result) ==
  IF Nullish(result) \/ Nullish(Get(result, "images"))
  THEN Threw(PlainError("TypeError", "Cannot convert undefined or null to object"))
  ELSE LET images == Get(result, "images") IN
       IF images.t = "obj" /\ images.v # <<>>
       THEN Returned(images.v[1][2])
       ELSE Returned(Undef)

\* delete: await this.request(...), and nothing is returned
Discard == [kind |-> "void"]

\* AwaitOnly with the value of request returned to the caller
AwaitOnly_ReturnsIt(result) == Returned(result)

\* what a Promise<void> operation resolves with once request has returned
AwaitOnly(result) == Returned(Undef)

\* testConnection: try { result = await request } catch (error) { ... }
TryConnection == [kind |-> "connection"]

\* what testConnection returns: for the value request returned, and for the
\* error it threw (every error request throws is an Error)
ConnectionResult(res) ==
  IF res.kind = "returned"
  THEN Obj(<< <<"connected", Bool(TRUE)>>,
              <<"message", Str("Successfully connected to Meta Marketing API")>>,
              <<"user", res.value>> >>)
  ELSE Obj(<< <<"connected", Bool(FALSE)>>, <<"message", res.error.message>> >>)

\* Continue with a follow-up request sent after a retryable failure too
Continue_AfterRetryable(res) ==
  IF res.kind = "threw" /\ IsApiError(res.error) /\ res.error.retryable
       /\ op.next.kind # "return"
  THEN [kind |-> "get", id |-> "120"]
  ELSE IF op.next.kind = "connection"
  THEN [kind |-> "done", outcome |-> Returned(ConnectionResult(res))]
  ELSE IF res.kind = "threw" \/ op.next.kind = "return"
  THEN [kind |-> "done", outcome |-> res]
  ELSE IF op.next.kind = "void"
  THEN [kind |-> "done", outcome |-> AwaitOnly(res.value)]
  ELSE IF op.next.kind = "firstImage"
  THEN [kind |-> "done", outcome |-> FirstImageOf(res.value)]
  ELSE IF op.next.kind = "getCreated" THEN AfterCreate(res.value)
  ELSE AfterUpdate(res.value)

\* Continue with the id of the POST returned when the follow-up GET fails
Continue_IdOnGetFailure(res) ==
  IF res.kind = "threw" /\ Len(log) = 2
  THEN [kind |-> "done", outcome |-> Returned(Get(resp[1].body, "id"))]
  ELSE IF op.next.kind = "connection"
  THEN [kind |-> "done", outcome |-> Returned(ConnectionResult(res))]
  ELSE IF res.kind = "threw" \/ op.next.kind = "return"
  THEN [kind |-> "done", outcome |-> res]
  ELSE IF op.next.kind = "void"
  THEN [kind |-> "done", outcome |-> AwaitOnly(res.value)]
  ELSE IF op.next.kind = "firstImage"
  THEN [kind |-> "done", outcome |-> FirstImageOf(res.value)]
  ELSE IF op.next.kind = "getCreated" THEN AfterCreate(res.value)
  ELSE AfterUpdate(res.value)

\* the operation from the point where request has returned or thrown
Continue(res) ==
  IF op.next.kind = "connection"
  THEN [kind |-> "done", outcome |-> Returned(ConnectionResult(res))]
  ELSE IF res.kind = "threw" \/ op.next.kind = "return"
  THEN [kind |-> "done", outcome |-> res]
  ELSE IF op.next.kind = "void"
  THEN [kind |-> "done", outcome |-> AwaitOnly(res.value)]
  ELSE IF op.next.kind = "firstImage"
  THEN [kind |-> "done", outcome |-> FirstImageOf(res.value)]
  ELSE IF op.next.kind = "getCreated" THEN AfterCreate(res.value)
  ELSE AfterUpdate(res.value)

\* the operation past its first await: of its arguments only the first (the
\* id it was called for) is read again
AfterFirstAwait ==
  [op EXCEPT !.args = IF Len(op.args) = 0 THEN <<>> ELSE <<op.args[1]>>]

\* fetch resolves with a response of R: request handles it and the
\* operation goes on, to its end or to its next fetch
FetchResolves(R) ==
  /\ pc = "fetch"
  /\ \E r \in R :
       LET step == Continue(Handle(inflight, r)) IN
       /\ resp' = Append(resp, r)
       /\ IF step.kind = "done"
          THEN /\ pc' = "done"
               /\ outcome' = step.outcome
               /\ inflight' = NoCall
               /\ op' = AfterFirstAwait
               /\ UNCHANGED log
          ELSE /\ pc' = "fetch"
               /\ op' = [AfterFirstAwait EXCEPT !.next = ReturnIt]
               /\ inflight' = GetCall(client, step.id, op.next.fields)
               /\ log' = Append(log, Sent(inflight'))
               /\ UNCHANGED outcome
  /\ UNCHANGED client

\* fetch rejects (no response: DNS, connection reset); request does not
\* catch it, and the operation goes on from the error thrown
FetchRejects ==
  /\ pc = "fetch"
  /\ \E m \in {"network error", "fetch failed"} :
       outcome' = Continue(Threw(PlainError("TypeError", m))).outcome
  /\ pc' = "done"
  /\ inflight' = NoCall
  /\ op' = AfterFirstAwait
  /\ UNCHANGED <<client, log, resp>>

(***************************************************************************)
(* client.ts: how the operations shape their parameters.  An input is an   *)
(* object; a member the caller leaves out reads as undefined.              *)
(***************************************************************************)
StartsWith(s, prefix) ==
  Len(s) >= Len(prefix) /\ SubSeq(s, 1, Len(prefix)) = prefix

\* NormalizeAccountId with the prefix put before every id
NormalizeAccountId_Always(accountId) == "act_" \o accountId

\* accountId.startsWith('act_') ? accountId : `act_${accountId}`
NormalizeAccountId(accountId) ==
  IF StartsWith(accountId, "act_") THEN accountId ELSE "act_" \o accountId

\* if (input.key) params.key = input.key
\* WhenTruthy with the test of the update operations, `!== undefined`
WhenTruthy_Defined(input, key) ==
  <<key, IF Get(input, key) # Undef THEN Get(input, key) ELSE Absent>>

\* if (input.key) params.key = input.key
WhenTruthy(input, key) ==
  <<key, IF Truthy(Get(input, key)) THEN Get(input, key) ELSE Absent>>

\* if (input.key) params.key = JSON.stringify(input.key)
WhenTruthyJSON(input, key) ==
  <<key, IF Truthy(Get(input, key)) THEN Str(JSONStringify(Get(input, key))) ELSE Absent>>

\* WhenDefined with the test of the create operations, `if (input.key)`
WhenDefined_Truthy(input, key) ==
  <<key, IF Truthy(Get(input, key)) THEN Get(input, key) ELSE Absent>>

\* if (input.key !== undefined) params.key = input.key
WhenDefined(input, key) ==
  <<key, IF Get(input, key) # Undef THEN Get(input, key) ELSE Absent>>

\* if (input.key !== undefined) params.key = JSON.stringify(input.key)
WhenDefinedJSON(input, key) ==
  <<key, IF Get(input, key) # Undef THEN Str(JSONStringify(Get(input, key))) ELSE Absent>>

\* DefaultStatus with another default
DefaultStatus_Active(status) == OrElse(status, Str("ACTIVE"))

\* status: input.status || 'PAUSED'
DefaultStatus(status) == OrElse(status, Str("PAUSED"))

\* special_ad_categories: input.special_ad_categories || ['NONE']
DefaultSpecialAdCategories(categories) == OrElse(categories, Arr(<<Str("NONE")>>))

createCampaignParams(input) ==
  ObjOf(<< <<"name", Get(input, "name")>>,
           <<"objective", Get(input, "objective")>>,
           <<"status", DefaultStatus(Get(input, "status"))>>,
           <<"special_ad_categories",
             DefaultSpecialAdCategories(Get(input, "special_ad_categories"))>>,
           WhenTruthy(input, "daily_budget"),
           WhenTruthy(input, "lifetime_budget"),
           WhenTruthy(input, "bid_strategy"),
           WhenTruthy(input, "spend_cap"),
           WhenTruthy(input, "buying_type"),
           WhenTruthy(input, "start_time"),
           WhenTruthy(input, "stop_time"),
           WhenTruthyJSON(input, "promoted_object") >>)

updateCampaignParams(input) ==
  ObjOf(<< WhenDefined(input, "name"),
           WhenDefined(input, "status"),
           WhenDefined(input, "daily_budget"),
           WhenDefined(input, "lifetime_budget"),
           WhenDefined(input, "bid_strategy"),
           WhenDefined(input, "spend_cap"),
           WhenDefined(input, "start_time"),
           WhenDefined(input, "stop_time") >>)

createAdSetParams(input) ==
  ObjOf(<< <<"campaign_id", Get(input, "campaign_id")>>,
           <<"name", Get(input, "name")>>,
           <<"billing_event", Get(input, "billing_event")>>,
           <<"optimization_goal", Get(input, "optimization_goal")>>,
           <<"status", DefaultStatus(Get(input, "status"))>>,
           <<"targeting", Str(JSONStringify(Get(input, "targeting")))>>,
           WhenTruthy(input, "bid_amount"),
           WhenTruthy(input, "bid_strategy"),
           WhenTruthy(input, "daily_budget"),
           WhenTruthy(input, "lifetime_budget"),
           WhenTruthy(input, "start_time"),
           WhenTruthy(input, "end_time"),
           WhenTruthyJSON(input, "promoted_object"),
           WhenTruthy(input, "destination_type"),
           WhenTruthyJSON(input, "attribution_spec"),
           WhenDefined(input, "is_dynamic_creative"),
           WhenTruthyJSON(input, "pacing_type") >>)

updateAdSetParams(input) ==
  ObjOf(<< WhenDefined(input, "name"),
           WhenDefined(input, "status"),
           WhenDefinedJSON(input, "targeting"),
           WhenDefined(input, "bid_amount"),
           WhenDefined(input, "bid_strategy"),
           WhenDefined(input, "daily_budget"),
           WhenDefined(input, "lifetime_budget"),
           WhenDefined(input, "start_time"),
           WhenDefined(input, "end_time"),
           WhenDefined(input, "optimization_goal"),
           WhenDefined(input, "billing_event") >>)

createAdParams(input) ==
  ObjOf(<< <<"adset_id", Get(input, "adset_id")>>,
           <<"name", Get(input, "name")>>,
           <<"creative", Str(JSONStringify(Get(input, "creative")))>>,
           <<"status", DefaultStatus(Get(input, "status"))>>,
           WhenTruthyJSON(input, "tracking_specs"),
           WhenTruthyJSON(input, "conversion_specs") >>)

updateAdParams(input) ==
  ObjOf(<< WhenDefined(input, "name"),
           WhenDefined(input, "status"),
           WhenDefinedJSON(input, "creative"),
           WhenDefinedJSON(input, "tracking_specs") >>)

createAdCreativeParams(input) ==
  ObjOf(<< WhenTruthy(input, "name"),
           WhenTruthyJSON(input, "object_story_spec"),
           WhenTruthyJSON(input, "asset_feed_spec"),
           WhenTruthyJSON(input, "degrees_of_freedom_spec"),
           WhenTruthy(input, "url_tags"),
           WhenDefined(input, "use_page_actor_override"),
           WhenTruthy(input, "authorization_category") >>)

createCustomAudienceParams(input) ==
  ObjOf(<< <<"name", Get(input, "name")>>,
           <<"subtype", Get(input, "subtype")>>,
           WhenTruthy(input, "description"),
           WhenTruthy(input, "customer_file_source"),
           WhenTruthy(input, "pixel_id"),
           WhenTruthy(input, "rule"),
           WhenDefined(input, "prefill"),
           WhenTruthy(input, "retention_days"),
           WhenTruthyJSON(input, "lookalike_spec") >>)

updateCustomAudienceParams(input) ==
  ObjOf(<< WhenDefined(input, "name"),
           WhenDefined(input, "description"),
           WhenDefined(input, "opt_out_link") >>)

createPixelParams(input) ==
  Obj(<< <<"name", Get(input, "name")>> >>)

(***************************************************************************)
(* client.ts: the create and update operations.                            *)
(***************************************************************************)
createCampaign(accountId, input) ==
  /\ client.bound
  /\ Issue("createCampaign", <<accountId, input>>, "POST",
        "/" \o NormalizeAccountId(accountId) \o "/campaigns",
        createCampaignParams(input), GetCreated(DEFAULT_CAMPAIGN_FIELDS))

updateCampaign(campaignId, input) ==
  /\ client.bound
  /\ Issue("updateCampaign", <<campaignId, input>>, "POST",
        "/" \o campaignId,
        updateCampaignParams(input), GetSame(campaignId, DEFAULT_CAMPAIGN_FIELDS))

createAdSet(accountId, input) ==
  /\ client.bound
  /\ Issue("createAdSet", <<accountId, input>>, "POST",
        "/" \o NormalizeAccountId(accountId) \o "/adsets",
        createAdSetParams(input), GetCreated(DEFAULT_ADSET_FIELDS))

updateAdSet(adSetId, input) ==
  /\ client.bound
  /\ Issue("updateAdSet", <<adSetId, input>>, "POST",
        "/" \o adSetId,
        updateAdSetParams(input), GetSame(adSetId, DEFAULT_ADSET_FIELDS))

createAd(accountId, input) ==
  /\ client.bound
  /\ Issue("createAd", <<accountId, input>>, "POST",
        "/" \o NormalizeAccountId(accountId) \o "/ads",
        createAdParams(input), GetCreated(DEFAULT_AD_FIELDS))

updateAd(adId, input) ==
  /\ client.bound
  /\ Issue("updateAd", <<adId, input>>, "POST",
        "/" \o adId,
        updateAdParams(input), GetSame(adId, DEFAULT_AD_FIELDS))

createAdCreative(accountId, input) ==
  /\ client.bound
  /\ Issue("createAdCreative", <<accountId, input>>, "POST",
        "/" \o NormalizeAccountId(accountId) \o "/adcreatives",
        createAdCreativeParams(input), GetCreated(DEFAULT_CREATIVE_FIELDS))

createCustomAudience(accountId, input) ==
  /\ client.bound
  /\ Issue("createCustomAudience", <<accountId, input>>, "POST",
        "/" \o NormalizeAccountId(accountId) \o "/customaudiences",
        createCustomAudienceParams(input), GetCreated(DEFAULT_AUDIENCE_FIELDS))

updateCustomAudience(audienceId, input) ==
  /\ client.bound
  /\ Issue("updateCustomAudience", <<audienceId, input>>, "POST",
        "/" \o audienceId,
        updateCustomAudienceParams(input), GetSame(audienceId, DEFAULT_AUDIENCE_FIELDS))

createPixel(accountId, input) ==
  /\ client.bound
  /\ Issue("createPixel", <<accountId, input>>, "POST",
        "/" \o NormalizeAccountId(accountId) \o "/adspixels",
        createPixelParams(input), GetCreated(DEFAULT_PIXEL_FIELDS))

createReachFrequencyPrediction(accountId, params) ==
  /\ client.bound
  /\ Issue("createReachFrequencyPrediction", <<accountId, params>>, "POST",
        "/" \o NormalizeAccountId(accountId) \o "/reachfrequencypredictions",
        params, GetCreated(REACH_FREQUENCY_FIELDS))

(***************************************************************************)
(* client.ts: the delete operations.                                       *)
(***************************************************************************)
deleteCampaign(campaignId) ==
  /\ client.bound
  /\ Issue("deleteCampaign", <<campaignId>>, "DELETE", "/" \o campaignId, Undef, Discard)

deleteAdSet(adSetId) ==
  /\ client.bound
  /\ Issue("deleteAdSet", <<adSetId>>, "DELETE", "/" \o adSetId, Undef, Discard)

deleteAd(adId) ==
  /\ client.bound
  /\ Issue("deleteAd", <<adId>>, "DELETE", "/" \o adId, Undef, Discard)

deleteCustomAudience(audienceId) ==
  /\ client.bound
  /\ Issue("deleteCustomAudience", <<audienceId>>, "DELETE", "/" \o audienceId, Undef, Discard)

(***************************************************************************)
(* client.ts: testConnection.                                              *)
(***************************************************************************)
testConnection ==
  /\ client.bound
  /\ Issue("testConnection", <<>>, "GET", "/me",
           Obj(<< <<"fields", Str("id,name")>> >>), TryConnection)

(***************************************************************************)
(* client.ts: uploadAdImage, the one operation that uses postForm.         *)
(***************************************************************************)
\* formData: bytes, and name when one is given
uploadAdImageForm(imageData, name) ==
  << <<"bytes", imageData>> >>
    \o (IF Truthy(name) THEN << <<"name", name.v>> >> ELSE <<>>)

uploadAdImage(accountId, imageData, name) ==
  /\ client.bound
  /\ pc = "ready"
  /\ pc' = "fetch"
  /\ op' = [name |-> "uploadAdImage", args |-> <<accountId, imageData, name>>,
            next |-> FirstImage]
  /\ inflight' = FormCall(client, "/" \o NormalizeAccountId(accountId) \o "/adimages",
                          uploadAdImageForm(imageData, name))
  /\ log' = <<Sent(inflight')>>
  /\ resp' = <<>>
  /\ outcome' = NoOutcome
  /\ UNCHANGED client

(***************************************************************************)
(* client.ts: the list operations.  params is an object or undefined;      *)
(* params?.k is undefined when params is.                                  *)
(***************************************************************************)
\* limit: params?.limit || 25
PageLimit(params) == OrElse(Get(params, "limit"), Num(25))

\* PageParams with an empty text in place of a cursor that is not given
PageParams_EmptyCursor(params, fields) ==
  << <<"fields", OrElse(Get(params, "fields"), fields)>>,
     <<"limit", PageLimit(params)>>,
     <<"after", OrElse(Get(params, "after"), Str(""))>>,
     <<"before", OrElse(Get(params, "before"), Str(""))>> >>

\* the members every list operation sends: fields, limit, after, before
PageParams(params, fields) ==
  << <<"fields", OrElse(Get(params, "fields"), fields)>>,
     <<"limit", PageLimit(params)>>,
     <<"after", Get(params, "after")>>,
     <<"before", Get(params, "before")>> >>

\* FilterBy without the test of params?.key
FilterBy_Always(params, key, field) ==
  <<"filtering",
    Str(JSONStringify(Arr(<< Obj(<< <<"field", Str(field)>>,
                                    <<"operator", Str("EQUAL")>>,
                                    <<"value", Get(params, key)>> >>) >>)))>>

\* if (params?.key) queryParams.filtering = JSON.stringify([{field, operator, value}])
FilterBy(params, key, field) ==
  <<"filtering",
    IF Truthy(Get(params, key))
    THEN Str(JSONStringify(Arr(<< Obj(<< <<"field", Str(field)>>,
                                         <<"operator", Str("EQUAL")>>,
                                         <<"value", Get(params, key)>> >>) >>)))
    ELSE Absent>>

listAdAccounts(params) ==
  /\ client.bound
  /\ Issue("listAdAccounts", <<params>>, "GET", "/me/adaccounts",
           Obj(PageParams(params, DEFAULT_AD_ACCOUNT_FIELDS)), ReturnIt)

listCampaigns(accountId, params) ==
  /\ client.bound
  /\ Issue("listCampaigns", <<accountId, params>>, "GET",
           "/" \o NormalizeAccountId(accountId) \o "/campaigns",
           Obj(PageParams(params, DEFAULT_CAMPAIGN_FIELDS)
                 \o << <<"effective_status", Get(params, "effectiveStatus")>> >>),
           ReturnIt)

listAdSets(accountId, params) ==
  /\ client.bound
  /\ Issue("listAdSets", <<accountId, params>>, "GET",
           "/" \o NormalizeAccountId(accountId) \o "/adsets",
           ObjOf(PageParams(params, DEFAULT_ADSET_FIELDS)
                   \o << <<"effective_status", Get(params, "effectiveStatus")>>,
                         FilterBy(params, "campaignId", "campaign.id") >>),
           ReturnIt)

listAds(accountId, params) ==
  /\ client.bound
  /\ Issue("listAds", <<accountId, params>>, "GET",
           "/" \o NormalizeAccountId(accountId) \o "/ads",
           ObjOf(PageParams(params, DEFAULT_AD_FIELDS)
                   \o << <<"effective_status", Get(params, "effectiveStatus")>>,
                         FilterBy(params, "adSetId", "adset.id") >>),
           ReturnIt)

listAdCreatives(accountId, params) ==
  /\ client.bound
  /\ Issue("listAdCreatives", <<accountId, params>>, "GET",
           "/" \o NormalizeAccountId(accountId) \o "/adcreatives",
           Obj(PageParams(params, DEFAULT_CREATIVE_FIELDS)), ReturnIt)

listCustomAudiences(accountId, params) ==
  /\ client.bound
  /\ Issue("listCustomAudiences", <<accountId, params>>, "GET",
           "/" \o NormalizeAccountId(accountId) \o "/customaudiences",
           Obj(PageParams(params, DEFAULT_AUDIENCE_FIELDS)), ReturnIt)

listPixels(accountId, params) ==
  /\ client.bound
  /\ Issue("listPixels", <<accountId, params>>, "GET",
           "/" \o NormalizeAccountId(accountId) \o "/adspixels",
           Obj(PageParams(params, DEFAULT_PIXEL_FIELDS)), ReturnIt)

(***************************************************************************)
(* The account-id normalization alone: Init draws an account id, Normalize *)
(* applies the normalization to it and then to its own result.             *)
(***************************************************************************)
\* account ids: the strings over these characters, up to MaxIdLen long
IdAlphabet == {"a", "c", "t", "_", "1"}
RECURSIVE IdsUpTo(_)
IdsUpTo(n) ==
  IF n = 0 THEN {""}
  ELSE LET shorter == IdsUpTo(n - 1) IN
       shorter \cup {s \o c : s \in shorter, c \in IdAlphabet}

InitNormalize ==
  /\ client = NoClient
  /\ pc = "normalize"
  /\ \E accountId \in IdsUpTo(MaxIdLen) : op = [name |-> "normalize", args |-> <<accountId>>]
  /\ inflight = NoCall
  /\ log = <<>>
  /\ resp = <<>>
  /\ outcome = NoOutcome

\* log holds the id as normalized once, then as normalized twice
Normalize ==
  /\ pc = "normalize"
  /\ Len(log) < 2
  /\ log' = Append(log, NormalizeAccountId(IF log = <<>> THEN op.args[1] ELSE log[Len(log)]))
  /\ UNCHANGED <<client, pc, op, inflight, resp, outcome>>

NextNormalize == Normalize

SpecNormalize == InitNormalize /\ [][NextNormalize]_vars

(***************************************************************************)
(* The request primitive alone: Init binds a client; Request is a call of  *)
(* request as the operations make it, FetchResolves handles any response.  *)
(***************************************************************************)
\* calls of request as the operations make them
RequestCalls ==
  {[endpoint |-> "/me", method |-> "GET",
    params |-> Obj(<< <<"fields", Str("id,name")>> >>)],
   [endpoint |-> "/120", method |-> "POST",
    params |-> Obj(<< <<"name", Str("Spring Sale")>>, <<"daily_budget", Num(0)>> >>)],
   [endpoint |-> "/120", method |-> "DELETE", params |-> Undef]}

InitRequest ==
  /\ \E t \in Tokens, v \in {Undef, Str("v20.0")} :
       client = MetaAdsClientImpl([accessToken |-> t, apiVersion |-> v])
  /\ pc = "ready"
  /\ op = NoOp
  /\ inflight = NoCall
  /\ log = <<>>
  /\ resp = <<>>
  /\ outcome = NoOutcome

Request ==
  /\ client.bound
  /\ \E c \in RequestCalls :
       Issue("request", <<c.endpoint, c.params>>, c.method, c.endpoint, c.params, ReturnIt)

NextRequest == Request \/ FetchResolves(Responses) \/ FetchRejects

SpecRequest == InitRequest /\ [][NextRequest]_vars

(***************************************************************************)
(* Inputs of the operations.                                               *)
(***************************************************************************)
\* members whose type has no falsy value: enumerations, objects, arrays
NeverFalsy ==
  {"status", "bid_strategy", "buying_type", "promoted_object", "targeting",
   "optimization_goal", "billing_event", "creative", "tracking_specs",
   "conversion_specs", "attribution_spec", "pacing_type", "object_story_spec",
   "asset_feed_spec", "degrees_of_freedom_spec", "customer_file_source",
   "lookalike_spec"}

\* a value a caller can supply for a member
TruthySample(key) ==
  CASE key \in {"daily_budget", "lifetime_budget", "spend_cap"} -> Num(5000)
    [] key \in {"bid_amount", "retention_days"} -> Num(30)
    [] key \in {"is_dynamic_creative", "use_page_actor_override", "prefill"} -> Bool(TRUE)
    [] key = "status" -> Str("ACTIVE")
    [] key = "bid_strategy" -> Str("COST_CAP")
    [] key = "buying_type" -> Str("AUCTION")
    [] key = "optimization_goal" -> Str("REACH")
    [] key = "billing_event" -> Str("IMPRESSIONS")
    [] key = "customer_file_source" -> Str("USER_PROVIDED_ONLY")
    [] key = "promoted_object" -> Obj(<< <<"pixel_id", Str("77")>> >>)
    [] key = "targeting" ->
         Obj(<< <<"geo_locations", Obj(<< <<"countries", Arr(<<Str("US")>>)>> >>)>> >>)
    [] key \in {"creative", "object_story_spec", "asset_feed_spec",
                "degrees_of_freedom_spec"} -> Obj(<< <<"name", Str("Creative")>> >>)
    [] key = "lookalike_spec" ->
         Obj(<< <<"origin_audience_id", Str("55")>>, <<"ratio", Num(1)>>,
                <<"country", Str("US")>> >>)
    [] key \in {"tracking_specs", "conversion_specs", "attribution_spec"} ->
         Arr(<< Obj(<< <<"action.type", Arr(<<Str("offsite_conversion")>>)>> >>) >>)
    [] key = "pacing_type" -> Arr(<<Str("standard")>>)
    [] OTHER -> Str("Spring Sale")

\* the falsy value of the member's type: 0, false or the empty string
FalsySample(key) ==
  CASE key \in NeverFalsy -> TruthySample(key)
    [] key \in {"daily_budget", "lifetime_budget", "spend_cap", "bid_amount",
                "retention_days"} -> Num(0)
    [] key \in {"is_dynamic_creative", "use_page_actor_override", "prefill"} -> Bool(FALSE)
    [] OTHER -> Str("")

Flavours == {"falsy", "truthy"}
Sample(key, flavour) == IF flavour = "falsy" THEN FalsySample(key) ELSE TruthySample(key)

\* an input with the members of fields at the indices of S supplied (all
\* falsy or all truthy) and the others undefined
InputWith(fields, S, flavour) ==
  Obj([i \in 1..Len(fields) |->
         <<fields[i], IF i \in S THEN Sample(fields[i], flavour) ELSE Undef>>])

\* every subset of the updatable members supplied
UpdateInputs(fields) ==
  {InputWith(fields, S, fl) : S \in SUBSET (1..Len(fields)), fl \in Flavours}

\* required members given, the optional ones all left out, all falsy or all truthy
CreateInputs(required, optional) ==
  {Obj(required \o InputWith(optional, S, fl).v) :
     S \in {{}, 1..Len(optional)}, fl \in Flavours}

\* what a caller can give for status
StatusInputs == {Undef, Str("ACTIVE"), Str("PAUSED")}

CampaignUpdateFields ==
  <<"name", "status", "daily_budget", "lifetime_budget", "bid_strategy", "spend_cap",
    "start_time", "stop_time">>
AdSetUpdateFields ==
  <<"name", "status", "targeting", "bid_amount", "bid_strategy", "daily_budget",
    "lifetime_budget", "start_time", "end_time", "optimization_goal", "billing_event">>
AdUpdateFields == <<"name", "status", "creative", "tracking_specs">>
CustomAudienceUpdateFields == <<"name", "description", "opt_out_link">>

CampaignCreateInputs ==
  UNION {CreateInputs(<< <<"name", Str("Spring Sale")>>, <<"objective", Str("OUTCOME_SALES")>>,
                         <<"status", st>>, <<"special_ad_categories", sac>> >>,
                      <<"daily_budget", "lifetime_budget", "bid_strategy", "spend_cap",
                        "buying_type", "start_time", "stop_time", "promoted_object">>) :
           st \in StatusInputs,
           sac \in {Undef, Arr(<<>>), Arr(<<Str("HOUSING"), Str("CREDIT")>>)}}

AdSetCreateInputs ==
  UNION {CreateInputs(<< <<"campaign_id", Str("120")>>, <<"name", Str("Spring Sale")>>,
                         <<"billing_event", Str("IMPRESSIONS")>>,
                         <<"optimization_goal", Str("REACH")>>, <<"status", st>>,
                         <<"targeting", TruthySample("targeting")>> >>,
                      <<"bid_amount", "bid_strategy", "daily_budget", "lifetime_budget",
                        "start_time", "end_time", "promoted_object", "destination_type",
                        "attribution_spec", "is_dynamic_creative", "pacing_type">>) :
           st \in StatusInputs}

AdCreateInputs ==
  UNION {CreateInputs(<< <<"adset_id", Str("121")>>, <<"name", Str("Spring Sale")>>,
                         <<"creative", TruthySample("creative")>>, <<"status", st>> >>,
                      <<"tracking_specs", "conversion_specs">>) :
           st \in StatusInputs}

AdCreativeInputs ==
  CreateInputs(<<>>, <<"name", "object_story_spec", "asset_feed_spec",
                       "degrees_of_freedom_spec", "url_tags", "use_page_actor_override",
                       "authorization_category">>)

CustomAudienceCreateInputs ==
  CreateInputs(<< <<"name", Str("Buyers")>>, <<"subtype", Str("CUSTOM")>> >>,
               <<"description", "customer_file_source", "pixel_id", "rule", "prefill",
                 "retention_days", "lookalike_spec">>)

PixelCreateInputs == {Obj(<< <<"name", Str("Main pixel")>> >>)}

\* parameter maps (Record<string, unknown>) of at most MaxParams entries
ParamKeys == <<"budget", "story_event_type", "destination_ids", "prediction_mode">>
ParamValues ==
  {Undef, Num(0), Str(""), Bool(FALSE), Num(5000), Str("x"), Arr(<<>>),
   Arr(<<Str("A"), Str("B")>>)}
RECURSIVE ParamMembers(_)
ParamMembers(n) ==
  IF n = 0 THEN {<<>>}
  ELSE {m \o << <<ParamKeys[n], v>> >> : m \in ParamMembers(n - 1), v \in ParamValues \cup {Absent}}
ParamMaps == {ObjOf(m) : m \in ParamMembers(MaxParams)}

AccountIds == {"123", "act_123"}
EntityIds == {"120"}

\* the responses the operations are run against
Created == Obj(<< <<"id", Str("120")>> >>)
Entity ==
  Obj(<< <<"id", Str("121")>>, <<"name", Str("Spring Sale")>>, <<"status", Str("PAUSED")>> >>)
OpResponses ==
  {[status |-> Num(200), retryAfter |-> Null, body |-> Created],
   [status |-> Num(200), retryAfter |-> Null, body |-> Entity],
   [status |-> Num(204), retryAfter |-> Null, body |-> Unparsable],
   [status |-> Num(429), retryAfter |-> Str("30"), body |-> Unparsable],
   [status |-> Num(400), retryAfter |-> Null, body |-> ErrorBody(100, "Invalid parameter")],
   [status |-> Num(400), retryAfter |-> Null, body |-> ErrorBody(17, "User request limit reached")],
   [status |-> Num(500), retryAfter |-> Null, body |-> Unparsable]}

\* the page sizes a caller asks for: none, 0, and sizes up to MaxLimit
PageSizes == {Absent, Num(0), Num(1), Num(25), Num(100), Num(101), Num(MaxLimit)}

\* PaginationParams with the filters of listAdSets and listAds, or no params
ListParams ==
  {Undef} \cup
  {ObjOf(<< <<"limit", n>>, <<"after", a>>, <<"before", b>>, <<"campaignId", f>>,
            <<"adSetId", f>> >>) :
     n \in PageSizes, a \in {Absent, Str(""), Str("QVFIU")}, b \in {Absent, Str("QVFIV")},
     f \in {Absent, Str(""), Str("120")}}

\* what the upstream answers to an upload: the images by file name
Uploaded ==
  Obj(<< <<"images",
           Obj(<< <<"banner.png",
                    Obj(<< <<"hash", Str("a1b2")>>, <<"url", Str("https://x/a1b2")>> >>)>> >>)>> >>)
UploadResponses == {[status |-> Num(200), retryAfter |-> Null, body |-> Uploaded]}

\* credentials and headers of the inbound calls
CredentialSets ==
  {[accessToken |-> Str("EAAB-tenant-1"), apiVersion |-> Undef],
   [accessToken |-> Str("EAAB-tenant-2"), apiVersion |-> Str("v20.0")],
   [accessToken |-> Str(""), apiVersion |-> Undef],
   [accessToken |-> Undef, apiVersion |-> Str("v20.0")]}
HeaderSets ==
  {[token |-> Str("EAAB-tenant-1"), version |-> Null],
   [token |-> Str("EAAB-tenant-2"), version |-> Str("v20.0")],
   [token |-> Str(""), version |-> Null],
   [token |-> Null, version |-> Str("v20.0")]}

(***************************************************************************)
(* utils/errors.ts and utils/formatters.ts: what the catch block of a tool *)
(* does with the value it caught.  A value thrown is an Error (a record    *)
(* with a name) or any other JavaScript value.                             *)
(***************************************************************************)
\* error instanceof Error
IsError(error) == "name" \in DOMAIN error

\* isRetryableError with the flag of the taxonomy as the only test
isRetryableError_FlagOnly(error) ==
  IsError(error) /\ IsApiError(error) /\ error.retryable

isRetryableError(error) ==
  IF IsError(error) /\ IsApiError(error) THEN error.retryable
  ELSE IF IsError(error)
  THEN \/ Includes(error.message.v, "network")
       \/ Includes(error.message.v, "timeout")
       \/ Includes(error.message.v, "ECONNRESET")
  ELSE FALSE

\* ...(value && {key: value}): the member, when value is truthy
SpreadWhenTruthy(key, value) == <<key, IF Truthy(value) THEN value ELSE Absent>>

formatErrorForLogging(error) ==
  IF IsError(error) /\ IsApiError(error)
  THEN ObjOf(<< <<"name", Str(error.name)>>,
                <<"message", error.message>>,
                <<"code", error.code>>,
                <<"statusCode", error.statusCode>>,
                <<"retryable", Bool(error.retryable)>>,
                <<"retryAfterSeconds",
                  IF error.name = "RateLimitError" THEN error.retryAfterSeconds ELSE Absent>>,
                <<"details", IF error.name = "ValidationError" THEN error.details ELSE Absent>>,
                SpreadWhenTruthy("errorSubcode", error.errorSubcode),
                SpreadWhenTruthy("errorUserTitle", error.errorUserTitle),
                SpreadWhenTruthy("errorUserMsg", error.errorUserMsg),
                SpreadWhenTruthy("fbTraceId", error.fbTraceId) >>)
  ELSE IF IsError(error)
  THEN Obj(<< <<"name", Str(error.name)>>,
              <<"message", error.message>>,
              <<"stack", Str(error.name \o ": " \o error.message.v)>> >>)
  ELSE Obj(<< <<"error", Str(JSString(error))>> >>)

\* the message formatError builds
ErrorText(error) ==
  IF IsError(error) /\ IsApiError(error)
  THEN "Error: " \o JSString(error.message)
         \o (IF Truthy(error.errorUserMsg) THEN " - " \o JSString(error.errorUserMsg) ELSE "")
         \o (IF error.retryable THEN " (retryable)" ELSE "")
  ELSE IF IsError(error) THEN "Error: " \o JSString(error.message)
  ELSE "Error: " \o JSString(error)

\* formatError: the ToolResponse; payload is the object whose JSON text is
\* the one content item of the response
formatError(error) ==
  [isError |-> TRUE,
   payload |-> Obj(<< <<"error", Str(ErrorText(error))>>,
                      <<"details", formatErrorForLogging(error)>> >>)]

\* the codes of the upstream error objects formatted
FormatCodes ==
  {Absent, Num(0), Num(2), Num(4), Num(10), Num(100), Num(190), Num(200), Num(613)}

\* upstream error bodies: every member optional
FormatBodies ==
  {Obj(<<>>)} \cup
  {Obj(<< <<"error",
            ObjOf(<< <<"message", m>>, <<"code", c>>, <<"error_subcode", sc>>,
                     <<"error_user_msg", um>>, <<"fbtrace_id", f>> >>)>> >>) :
     m \in {Absent, Str("Invalid parameter")},
     c \in FormatCodes,
     sc \in {Absent, Num(463)},
     um \in {Absent, Str(""), Str("Please retry")},
     f \in {Absent, Str("AbCdEf")}}

\* what a tool can catch besides an error made by parseMetaApiError: the
\* RateLimit error of a 429, errors constructed by hand, failures of fetch
\* and of the runtime, and values that are no Error
ThrownValues ==
  {RateLimitError(Str("Rate limit exceeded"), Num(30), Undef),
   RateLimitError(Str("Rate limit exceeded"), NaN, Undef),
   MetaAdsApiError(Str("Service unavailable"), Num(503), Str("2"), TRUE, NoExtra),
   MetaAdsApiError(Str("Service unavailable"), Num(503), Undef, FALSE, NoExtra),
   NotFoundError("Campaign", "120", Undef),
   AuthenticationError(Str("Access token is required"), Undef, Undef)}
  \cup
  {PlainError("TypeError", m) :
     m \in {"fetch failed", "network error", "Request timeout", "read ECONNRESET",
            "Network connection lost.", "connect ETIMEDOUT",
            "Cannot read properties of undefined"}}
  \cup
  {Str("boom"), Undef, Null, Num(0), Obj(<< <<"retryable", Bool(TRUE)>> >>)}

\* a tool is about to classify an upstream error body, or has caught a value
InitFormat ==
  /\ client = NoClient
  /\ op = NoOp
  /\ inflight = NoCall
  /\ log = <<>>
  /\ \/ /\ pc = "classify"
        /\ \E s \in ErrorStatuses, b \in FormatBodies :
             resp = << [status |-> s, retryAfter |-> Null, body |-> b] >>
        /\ outcome = NoOutcome
     \/ /\ pc = "classified"
        /\ resp = <<>>
        /\ \E e \in ThrownValues : outcome = Returned(e)

\* catch (error) { return formatError(error) }
FormatError ==
  /\ pc = "classified"
  /\ pc' = "formatted"
  /\ op' = [name |-> "formatError", args |-> <<outcome.value>>]
  /\ outcome' = Returned(formatError(outcome.value))
  /\ UNCHANGED <<client, inflight, log, resp>>

\* a caller asks whether to retry: isRetryableError(error)
CheckRetryable ==
  /\ pc = "classified"
  /\ pc' = "checked"
  /\ op' = [name |-> "isRetryableError", args |-> <<outcome.value>>]
  /\ outcome' = Returned(Bool(isRetryableError(outcome.value)))
  /\ UNCHANGED <<client, inflight, log, resp>>

NextFormat == Classify \/ FormatError \/ CheckRetryable

SpecFormat == InitFormat /\ [][NextFormat]_vars

(***************************************************************************)
(* Concurrent invocations: two clients bound to the credentials of two     *)
(* tenants, and invocations that run through them at the same time.  Here  *)
(* client holds the clients, and pc, op, inflight, resp and outcome hold   *)
(* one value for each invocation.                                          *)
(***************************************************************************)
Invocations == {1, 2, 3}

\* the credentials the two servers were created with
ConcCredentials ==
  << [accessToken |-> Str("EAAB-tenant-1"), apiVersion |-> Undef],
     [accessToken |-> Str("EAAB-tenant-2"), apiVersion |-> Str("v20.0")] >>

\* BoundClient with one client used by every server
BoundClient_Shared(k) == client[1]

\* the client that the tools of server k close over
BoundClient(k) == client[k]

\* calls of request that operations make: their endpoint, method and params
ConcCalls ==
  {[name |-> "updateCampaign", method |-> "POST", endpoint |-> "/120",
    params |-> updateCampaignParams(i)] :
     i \in {InputWith(CampaignUpdateFields, {1}, "truthy"),
            InputWith(CampaignUpdateFields, {3}, "falsy")}}
  \cup
  {[name |-> "listCampaigns", method |-> "GET", endpoint |-> "/act_123/campaigns",
    params |-> Obj(PageParams(Undef, DEFAULT_CAMPAIGN_FIELDS)
                     \o << <<"effective_status", Undef>> >>)],
   [name |-> "deleteCampaign", method |-> "DELETE", endpoint |-> "/120",
    params |-> Undef]}

ConcResponses ==
  {[status |-> Num(200), retryAfter |-> Null, body |-> Entity],
   [status |-> Num(429), retryAfter |-> Str("30"), body |-> Unparsable]}

InitConcurrent ==
  /\ client = [k \in {1, 2} |-> MetaAdsClientImpl(ConcCredentials[k])]
  /\ pc = [i \in Invocations |-> "ready"]
  /\ op = [i \in Invocations |-> NoOp]
  /\ inflight = [i \in Invocations |-> NoCall]
  /\ log = <<>>
  /\ resp = [i \in Invocations |-> <<>>]
  /\ outcome = [i \in Invocations |-> NoOutcome]

\* invocation i calls request through the client of server k, up to await fetch
ConcRequest(i) ==
  /\ pc[i] = "ready"
  /\ \E k \in {1, 2}, c \in ConcCalls :
       /\ op' = [op EXCEPT ![i] = [name |-> c.name, args |-> <<k, c.params>>,
                                   next |-> ReturnIt]]
       /\ inflight' = [inflight EXCEPT
                         ![i] = FetchCall(BoundClient(k), c.endpoint, c.method, c.params)]
  /\ pc' = [pc EXCEPT ![i] = "fetch"]
  /\ UNCHANGED <<client, log, resp, outcome>>

\* the fetch of invocation i resolves, and request handles the response
ConcResolve(i) ==
  /\ pc[i] = "fetch"
  /\ \E r \in ConcResponses :
       /\ resp' = [resp EXCEPT ![i] = <<r>>]
       /\ outcome' = [outcome EXCEPT ![i] = HandleResponse(r)]
  /\ pc' = [pc EXCEPT ![i] = "done"]
  /\ inflight' = [inflight EXCEPT ![i] = NoCall]
  /\ UNCHANGED <<client, op, log>>

NextConcurrent ==
  \/ \E i \in Invocations : ConcRequest(i)
  \/ \E i \in Invocations : ConcResolve(i)

SpecConcurrent == InitConcurrent /\ [][NextConcurrent]_vars

(***************************************************************************)
(* The server: one inbound call binds a client (or is refused), the client *)
(* runs one operation, and the call ends.                                  *)
(***************************************************************************)
Init ==
  /\ client = NoClient
  /\ pc = "start"
  /\ op = NoOp
  /\ inflight = NoCall
  /\ log = <<>>
  /\ resp = <<>>
  /\ outcome = NoOutcome

\* the 401 Response the worker answers when validateCredentials throws
Unauthorized(error) ==
  Obj(<< <<"status", Num(401)>>,
         <<"error", Str("Unauthorized")>>,
         <<"message", error.message>>,
         <<"required_headers", Arr(<<Str("X-Meta-Access-Token")>>)>> >>)

\* a caller constructs a client: createMetaAdsClient(credentials)
CreateClient ==
  /\ pc = "start"
  /\ \E credentials \in CredentialSets :
       LET made == createMetaAdsClient(credentials) IN
       /\ op' = [name |-> "createMetaAdsClient", args |-> <<credentials>>, next |-> ReturnIt]
       /\ IF made.kind = "threw"
          THEN pc' = "rejected" /\ outcome' = made /\ UNCHANGED client
          ELSE pc' = "ready" /\ client' = made.value /\ UNCHANGED outcome
  /\ UNCHANGED <<inflight, log, resp>>

\* index.ts, POST /mcp: parse and validate the credentials, then
\* createStatelessServer, which constructs the client
WorkerFetch ==
  /\ pc = "start"
  /\ \E headers \in HeaderSets :
       LET credentials == parseTenantCredentials(headers)
           valid == validateCredentials(credentials)
           made == createMetaAdsClient(credentials)
       IN
       /\ op' = [name |-> "fetch", args |-> <<headers>>, next |-> ReturnIt]
       /\ IF valid.kind = "threw"
          THEN /\ pc' = "rejected"
               /\ outcome' = Returned(Unauthorized(valid.error))
               /\ UNCHANGED client
          ELSE IF made.kind = "threw"
          THEN pc' = "rejected" /\ outcome' = made /\ UNCHANGED client
          ELSE pc' = "ready" /\ client' = made.value /\ UNCHANGED outcome
  /\ UNCHANGED <<inflight, log, resp>>

CreateOperation ==
  \/ \E a \in AccountIds, i \in CampaignCreateInputs : createCampaign(a, i)
  \/ \E a \in AccountIds, i \in AdSetCreateInputs : createAdSet(a, i)
  \/ \E a \in AccountIds, i \in AdCreateInputs : createAd(a, i)
  \/ \E a \in AccountIds, i \in AdCreativeInputs : createAdCreative(a, i)
  \/ \E a \in AccountIds, i \in CustomAudienceCreateInputs : createCustomAudience(a, i)
  \/ \E a \in AccountIds, i \in PixelCreateInputs : createPixel(a, i)
  \/ \E a \in AccountIds, m \in ParamMaps : createReachFrequencyPrediction(a, m)

UpdateOperation ==
  \/ \E id \in EntityIds, i \in UpdateInputs(CampaignUpdateFields) : updateCampaign(id, i)
  \/ \E id \in EntityIds, i \in UpdateInputs(AdSetUpdateFields) : updateAdSet(id, i)
  \/ \E id \in EntityIds, i \in UpdateInputs(AdUpdateFields) : updateAd(id, i)
  \/ \E id \in EntityIds, i \in UpdateInputs(CustomAudienceUpdateFields) :
       updateCustomAudience(id, i)

ListOperation ==
  \/ \E p \in ListParams : listAdAccounts(p)
  \/ \E a \in AccountIds, p \in ListParams : listCampaigns(a, p)
  \/ \E a \in AccountIds, p \in ListParams : listAdSets(a, p)
  \/ \E a \in AccountIds, p \in ListParams : listAds(a, p)
  \/ \E a \in AccountIds, p \in ListParams : listAdCreatives(a, p)
  \/ \E a \in AccountIds, p \in ListParams : listCustomAudiences(a, p)
  \/ \E a \in AccountIds, p \in ListParams : listPixels(a, p)

DeleteOperation ==
  \/ \E id \in EntityIds : deleteCampaign(id)
  \/ \E id \in EntityIds : deleteAdSet(id)
  \/ \E id \in EntityIds : deleteAd(id)
  \/ \E id \in EntityIds : deleteCustomAudience(id)

UploadOperation ==
  \E a \in AccountIds, n \in {Undef, Str("banner.png")} : uploadAdImage(a, "iVBORw0KGgo", n)

\* the fetch of an upload resolves with the images
UploadResolves ==
  /\ inflight.via = "postForm"
  /\ FetchResolves(UploadResponses)

\* the inbound call ends; the next one starts from nothing
EndCall ==
  /\ pc \in {"done", "rejected"}
  /\ client' = NoClient
  /\ pc' = "start"
  /\ op' = NoOp
  /\ inflight' = NoCall
  /\ log' = <<>>
  /\ resp' = <<>>
  /\ outcome' = NoOutcome

Next ==
  \/ CreateClient
  \/ WorkerFetch
  \/ CreateOperation
  \/ UpdateOperation
  \/ ListOperation
  \/ DeleteOperation
  \/ testConnection
  \/ UploadOperation
  \/ UploadResolves
  \/ FetchResolves(OpResponses)
  \/ FetchRejects
  \/ EndCall

Spec == Init /\ [][Next]_vars

(***************************************************************************)
(* Claims about the classifier (checked under SpecClassify).               *)
(***************************************************************************)
\* the body's error member, and what the classifier returned for it
UpstreamError == Get(resp[1].body, "error")
Classified == outcome.value

\* the kind the precedence list of the specification gives a numeric code
ExpectedKind(c) ==
  IF c = 190 THEN "AuthenticationError"
  ELSE IF c = 10 \/ (200 <= c /\ c < 300) THEN "PermissionError"
  ELSE IF c \in {4, 17, 32, 613} THEN "RateLimitError"
  ELSE IF c = 100 THEN "ValidationError"
  ELSE "MetaAdsApiError"

\* everything C1 says except the message of a Validation error
C1_KindAndFlags ==
  LET e == UpstreamError
      r == Classified
      c == Get(e, "code")
  IN
  /\ IsApiError(r)
  /\ r.retryable = (r.name = "RateLimitError")
  /\ (e.t = "obj" /\ c.t = "num") =>
       /\ r.name = ExpectedKind(c.v)
       /\ r.name = "RateLimitError" => r.retryAfterSeconds = Num(60)
       /\ r.name = "ValidationError" => r.code = Str("VALIDATION_ERROR")
  /\ (e.t = "obj" /\ c.t # "num") => r.name = "MetaAdsApiError"
  /\ e.t # "obj" =>
       /\ r.name = "MetaAdsApiError"
       /\ r.code = Str("UNKNOWN_ERROR")
       /\ r.statusCode = resp[1].status

C2_CarriesUpstreamFields ==
  (pc = "classified" /\ UpstreamError.t = "obj") =>
    LET e == UpstreamError
        r == Classified
        c == Get(e, "code")
    IN
    /\ c.t = "num" => r.code = Str(ToString(c.v))
    /\ r.errorSubcode = Get(e, "error_subcode")
    /\ r.errorUserTitle = Get(e, "error_user_title")
    /\ r.errorUserMsg = Get(e, "error_user_msg")
    /\ r.fbTraceId = Get(e, "fbtrace_id")

(***************************************************************************)
(* Claims about the request primitive (checked under SpecRequest).         *)
(***************************************************************************)
\* C3: a response with status 429 makes request fail with a RateLimit error
\* whatever the body holds, whose retry-after is the Retry-After header's
\* value when the header parses as an integer, and 60 in every other case.
C3_RetryAfterHeaderOr60 ==
  (pc = "done" /\ resp # <<>> /\ resp[1].status = Num(429)) =>
    LET h == resp[1].retryAfter
        parsed == IF h.t = "str" THEN parseInt(h.v) ELSE NaN
    IN
    /\ outcome.kind = "threw"
    /\ outcome.error.name = "RateLimitError"
    /\ outcome.error.retryAfterSeconds = IF parsed.t = "num" THEN parsed ELSE Num(60)

\* C4: for a non-success status other than 429 and any body, request fails
\* with an ApiError of the taxonomy, and a body that is unparsable or holds
\* no error object gives Generic/UNKNOWN_ERROR.
C4_NonSuccessYieldsApiError ==
  (pc = "done" /\ resp # <<>> /\ ~ResponseOk(resp[1]) /\ resp[1].status # Num(429)) =>
    /\ outcome.kind = "threw"
    /\ IsApiError(outcome.error)
    /\ (resp[1].body.t # "obj" \/ Get(resp[1].body, "error").t # "obj") =>
         /\ outcome.error.name = "MetaAdsApiError"
         /\ outcome.error.code = Str("UNKNOWN_ERROR")

(***************************************************************************)
(* Claims about the operations (checked under Spec).                       *)
(***************************************************************************)
\* the first fetch of an operation is awaited: its POST is in flight
FirstFetch == pc = "fetch" /\ Len(log) = 1

\* the keys of a query string
QueryKeys(q) == {q[i][1] : i \in 1..Len(q)}

\* C5: for every parameter map passed to request, a key whose value is
\* undefined is not in the query string; a key whose value is 0, the empty
\* string or false is, with the text "0", "" or "false"; and a key whose
\* value is an array is, with the array's JSON text.
C5_UndefinedOmittedFalsySent ==
  (pc = "fetch" /\ inflight.params.t = "obj") =>
    \A i \in 1..Len(inflight.params.v) :
      LET key == inflight.params.v[i][1]
          value == inflight.params.v[i][2]
          sent == QueryGet(inflight.query, key)
      IN
      /\ value = Undef => sent = Absent
      /\ value # Undef => sent # Absent
      /\ value = Num(0) => sent = Str("0")
      /\ value = Str("") => sent = Str("")
      /\ value = Bool(FALSE) => sent = Str("false")
      /\ value = Arr(<<>>) => sent = Str("[]")
      /\ value.t = "arr" => sent = Str(JSONStringify(value))

\* a map with an undefined, a falsy and an array value goes out
C5_Witness ==
  /\ FirstFetch
  /\ op.name = "createReachFrequencyPrediction"
  /\ inflight.params = Obj(<< <<"budget", Undef>>, <<"story_event_type", Num(0)>>,
                              <<"destination_ids", Arr(<<Str("A"), Str("B")>>)>> >>)
  /\ inflight.query = << <<"access_token", "EAAB-tenant-1">>,
                         <<"story_event_type", "0">>,
                         <<"destination_ids", "[\"A\",\"B\"]">> >>

\* C6: constructing a client with an empty or missing access token fails,
\* before any request goes out, with an Authentication error whose message
\* names the X-Meta-Access-Token header.
C6_MissingTokenNamesHeader ==
  /\ pc = "ready" => Truthy(client.credentials.accessToken)
  /\ (pc = "rejected" /\ op.name = "createMetaAdsClient") =>
       /\ ~Truthy(op.args[1].accessToken)
       /\ log = <<>> /\ inflight = NoCall
       /\ outcome.kind = "threw"
       /\ outcome.error.name = "AuthenticationError"
       /\ Includes(outcome.error.message.v, "X-Meta-Access-Token")

CreateOperations ==
  {"createCampaign", "createAdSet", "createAd", "createAdCreative",
   "createCustomAudience", "createPixel", "createReachFrequencyPrediction"}

UpdateOperations ==
  {"updateCampaign", "updateAdSet", "updateAd", "updateCustomAudience"}

\* the first response gave request a value that has an id
ReturnedAnId ==
  /\ Len(resp) >= 1
  /\ HandleResponse(resp[1]).kind = "returned"
  /\ Get(HandleResponse(resp[1]).value, "id").t = "str"

\* C7: a create operation issues its POST first; a GET goes out only after
\* the POST has succeeded, there is one when the POST returned an id, and it
\* is for that id; the operation returns what that GET returned and nothing
\* else; when the POST fails there is no GET.
C7_CreateThenGetById ==
  (pc \in {"fetch", "done"} /\ op.name \in CreateOperations) =>
    /\ Len(log) \in {1, 2}
    /\ log[1].method = "POST"
    /\ Len(log) = 2 =>
         /\ ResponseOk(resp[1])
         /\ log[2] = [method |-> "GET",
                      endpoint |-> "/" \o Get(resp[1].body, "id").v]
    /\ ReturnedAnId => Len(log) = 2
    /\ (Len(resp) >= 1 /\ ~ResponseOk(resp[1])) =>
         /\ Len(log) = 1
         /\ pc = "done" /\ outcome.kind = "threw"
    /\ (pc = "done" /\ outcome.kind = "returned") =>
         /\ Len(log) = 2 /\ Len(resp) = 2
         /\ outcome = HandleResponse(resp[2])

\* scenario A: the POST returns {id: "120"}, the GET of /120 the campaign
C7_Witness ==
  /\ pc = "done"
  /\ op.name = "createCampaign"
  /\ log = << [method |-> "POST", endpoint |-> "/act_123/campaigns"],
              [method |-> "GET", endpoint |-> "/120"] >>
  /\ resp[1].body = Created
  /\ resp[2].body = Entity
  /\ outcome = Returned(Entity)

\* C8: an update operation issues its POST first; the GET goes out only
\* after the POST has succeeded, there is one when it has, and it is for the
\* id that was updated; the operation returns what the GET returned; when the
\* POST fails there is no GET and the operation fails with the POST's error.
C8_UpdateThenGetSameId ==
  (pc \in {"fetch", "done"} /\ op.name \in UpdateOperations) =>
    /\ Len(log) \in {1, 2}
    /\ log[1] = [method |-> "POST", endpoint |-> "/" \o op.args[1]]
    /\ Len(log) = 2 =>
         /\ ResponseOk(resp[1])
         /\ log[2] = [method |-> "GET", endpoint |-> "/" \o op.args[1]]
    /\ (Len(resp) >= 1 /\ ResponseOk(resp[1])) => Len(log) = 2
    /\ (Len(resp) >= 1 /\ ~ResponseOk(resp[1])) =>
         /\ Len(log) = 1
         /\ pc = "done"
         /\ outcome = HandleResponse(resp[1])
         /\ outcome.kind = "threw"
    /\ (pc = "done" /\ outcome.kind = "returned") =>
         /\ Len(log) = 2 /\ Len(resp) = 2
         /\ outcome = HandleResponse(resp[2])

\* scenario D: the update POST of /120 is answered 429; no GET follows
C8_Witness ==
  /\ pc = "done"
  /\ op.name = "updateCampaign"
  /\ log = << [method |-> "POST", endpoint |-> "/120"] >>
  /\ resp[1].status = Num(429)
  /\ outcome.kind = "threw"
  /\ outcome.error.name = "RateLimitError"

\* the updatable members of each update operation's input
UpdatableFields(name) ==
  CASE name = "updateCampaign" -> CampaignUpdateFields
    [] name = "updateAdSet" -> AdSetUpdateFields
    [] name = "updateAd" -> AdUpdateFields
    [] name = "updateCustomAudience" -> CustomAudienceUpdateFields

\* the members of an update's input that the caller supplied
Supplied(name, input) ==
  {UpdatableFields(name)[i] : i \in {j \in 1..Len(UpdatableFields(name)) :
                                       Get(input, UpdatableFields(name)[j]) # Undef}}

\* C9: the POST of an update operation called with the members of S
\* supplied carries the members of S and access_token, each once, and
\* nothing else.
C9_SparseUpdate ==
  (FirstFetch /\ op.name \in UpdateOperations) =>
    /\ QueryKeys(inflight.query) = Supplied(op.name, op.args[2]) \cup {"access_token"}
    /\ Len(inflight.query) = Cardinality(QueryKeys(inflight.query))
    /\ QueryGet(inflight.query, "access_token") = client.credentials.accessToken

\* an update with daily_budget = 0 and nothing else supplied
C9_Witness ==
  /\ FirstFetch
  /\ op.name = "updateCampaign"
  /\ Supplied(op.name, op.args[2]) = {"daily_budget"}
  /\ Get(op.args[2], "daily_budget") = Num(0)
  /\ inflight.query = << <<"access_token", "EAAB-tenant-1">>, <<"daily_budget", "0">> >>

\* C10: the POST of createCampaign, createAdSet and createAd carries
\* status = PAUSED when the caller gives no status and the caller's status
\* when one is given; the POST of createCampaign carries
\* special_ad_categories = ["NONE"] when the caller gives none and the
\* caller's list when one is given.
C10_CreateDefaults ==
  (FirstFetch /\ op.name \in {"createCampaign", "createAdSet", "createAd"}) =>
    LET input == op.args[2]
        status == Get(input, "status")
        categories == Get(input, "special_ad_categories")
    IN
    /\ QueryGet(inflight.query, "status") =
         IF status = Undef THEN Str("PAUSED") ELSE status
    /\ op.name = "createCampaign" =>
         QueryGet(inflight.query, "special_ad_categories") =
           IF categories = Undef THEN Str("[\"NONE\"]")
           ELSE Str(JSONStringify(categories))

\* scenario A: name and objective only
C10_Witness ==
  /\ FirstFetch
  /\ op.name = "createCampaign"
  /\ Get(op.args[2], "name") = Str("Spring Sale")
  /\ Get(op.args[2], "objective") = Str("OUTCOME_SALES")
  /\ Get(op.args[2], "status") = Undef
  /\ Get(op.args[2], "special_ad_categories") = Undef
  /\ QueryGet(inflight.query, "status") = Str("PAUSED")
  /\ QueryGet(inflight.query, "special_ad_categories") = Str("[\"NONE\"]")

(***************************************************************************)
(* More claims about the request primitive (checked under SpecRequest).    *)
(***************************************************************************)
\* C11: a response with status 204 makes request return undefined whatever
\* its body is, text that is no JSON included (the body is never parsed);
\* a response with any other success status makes request return the body
\* as parsed from JSON.
C11_NoContentYieldsUndefined ==
  (pc = "done" /\ resp # <<>> /\ ResponseOk(resp[1])) =>
    /\ resp[1].status = Num(204) => outcome = Returned(Undef)
    /\ (resp[1].status # Num(204) /\ resp[1].body # Unparsable) =>
         outcome = Returned(resp[1].body)

\* a 204 whose body is no JSON: the DELETE returns undefined
C11_Witness ==
  /\ pc = "done"
  /\ op.name = "request"
  /\ log = << [method |-> "DELETE", endpoint |-> "/120"] >>
  /\ resp[1].status = Num(204)
  /\ resp[1].body = Unparsable
  /\ outcome = Returned(Undef)

(***************************************************************************)
(* More claims about the operations (checked under Spec).                  *)
(***************************************************************************)
ListOperations ==
  {"listAdAccounts", "listCampaigns", "listAdSets", "listAds", "listAdCreatives",
   "listCustomAudiences", "listPixels"}

\* the page size the caller of the operation in progress asked for
RequestedLimit == Get(op.args[Len(op.args)], "limit")

\* the limit that goes out, as a number
SentLimit == parseInt(QueryGet(inflight.query, "limit").v)

\* C12: the limit a list operation sends is 25 when the caller gives no
\* page size, is 100 when the caller asks for more than 100, and is never
\* more than 100.
C12_LimitClamped ==
  (FirstFetch /\ op.name \in ListOperations) =>
    /\ SentLimit.t = "num" /\ SentLimit.v <= 100
    /\ RequestedLimit = Undef => SentLimit = Num(25)
    /\ (RequestedLimit.t = "num" /\ RequestedLimit.v > 100) => SentLimit = Num(100)

(***************************************************************************)
(* Claim about the account-id normalization (checked under SpecNormalize). *)
(***************************************************************************)
\* C13: for every account id A, normalize(A) begins with act_, is A itself
\* when A begins with act_, and normalize(normalize(A)) = normalize(A).
C13_NormalizeIdempotent ==
  (pc = "normalize" /\ log # <<>>) =>
    LET A == op.args[1] IN
    /\ Len(log[1]) >= 4 /\ SubSeq(log[1], 1, 4) = "act_"
    /\ (Len(A) >= 4 /\ SubSeq(A, 1, 4) = "act_") => log[1] = A
    /\ ~(Len(A) >= 4 /\ SubSeq(A, 1, 4) = "act_") => log[1] = "act_" \o A
    /\ Len(log) = 2 => log[2] = log[1]

\* an id that has the prefix, normalized twice
C13_Witness ==
  /\ pc = "normalize"
  /\ op.args = <<"act_1">>
  /\ log = <<"act_1", "act_1">>

\* what the primitive the operation uses made of its i-th response
Handled(i) ==
  IF op.name = "uploadAdImage" THEN HandleFormResponse(resp[i]) ELSE HandleResponse(resp[i])

\* C14: every request of an operation is sent once: an operation has sent
\* one or two requests, the latest is the only one awaited, a second request
\* is sent only after the first has succeeded and is another request than
\* the first, and a request that failed, with a retryable error or any
\* other, is followed by none.
C14_NoRequestReissued ==
  pc \in {"fetch", "done"} =>
    /\ Len(log) \in {1, 2}
    /\ pc = "fetch" => (inflight # NoCall /\ Len(resp) = Len(log) - 1)
    /\ pc = "done" => (inflight = NoCall /\ Len(resp) \in {Len(log) - 1, Len(log)})
    /\ Len(log) = 2 =>
         /\ Handled(1).kind = "returned"
         /\ log[2] # log[1]
         /\ op.name \in CreateOperations \cup UpdateOperations
    /\ (Len(resp) >= 1 /\ Handled(1).kind = "threw") =>
         (pc = "done" /\ Len(log) = 1)

\* a create whose POST is answered 429: a retryable failure, one request
C14_Witness ==
  /\ pc = "done"
  /\ op.name = "createAdSet"
  /\ log = << [method |-> "POST", endpoint |-> "/act_123/adsets"] >>
  /\ resp[1].status = Num(429)
  /\ outcome.kind = "threw"
  /\ outcome.error.retryable

\* the last request of the operation failed: fetch rejected, or request
\* threw for the response
LastRequestFailed ==
  \/ Len(resp) < Len(log)
  \/ Handled(Len(resp)).kind = "threw"

\* C15: an operation whose request failed ends in a failure, the one the
\* request raised when fetch resolved: no operation returns a value in the
\* place of it.
C15_FailurePropagates ==
  (pc = "done" /\ LastRequestFailed) =>
    /\ outcome.kind = "threw"
    /\ Len(resp) = Len(log) => outcome = Handled(Len(resp))

(***************************************************************************)
(* Claim about concurrent invocations (checked under SpecConcurrent).      *)
(***************************************************************************)
\* the members of a params object whose value is not undefined
DefinedKeys(params) ==
  IF params.t = "obj"
  THEN {params.v[j][1] : j \in {n \in 1..Len(params.v) : params.v[n][2] # Undef}}
  ELSE {}

\* C16: whatever the other invocations are doing, the request in flight for
\* an invocation carries the token and the API version that the client it
\* goes through was constructed with, and the parameters of that invocation
\* and no others; the outcome of an invocation is the one of its own
\* response; and the clients stay as they were constructed.
C16_NoInterference ==
  /\ client = [k \in {1, 2} |-> MetaAdsClientImpl(ConcCredentials[k])]
  /\ \A i \in Invocations :
       /\ pc[i] = "fetch" =>
            LET k == op[i].args[1]
                params == op[i].args[2]
                call == inflight[i]
            IN
            /\ QueryGet(call.query, "access_token") = ConcCredentials[k].accessToken
            /\ call.version = IF k = 1 THEN "v21.0" ELSE "v20.0"
            /\ QueryKeys(call.query) = DefinedKeys(params) \cup {"access_token"}
            /\ \A key \in DefinedKeys(params) :
                 QueryGet(call.query, key) = Str(ParamString(Get(params, key)))
       /\ pc[i] = "done" => outcome[i] = HandleResponse(resp[i][1])
       /\ pc[i] = "ready" => (inflight[i] = NoCall /\ outcome[i] = NoOutcome)

\* three requests in flight at once: two through the client of tenant 1,
\* one through the client of tenant 2
C16_Witness ==
  /\ \A i \in Invocations : pc[i] = "fetch"
  /\ op[1].args[1] = 1 /\ op[2].args[1] = 2 /\ op[3].args[1] = 1
  /\ op[1].name = "updateCampaign" /\ op[3].name = "listCampaigns"
  /\ QueryGet(inflight[1].query, "access_token") = Str("EAAB-tenant-1")
  /\ QueryGet(inflight[2].query, "access_token") = Str("EAAB-tenant-2")
  /\ QueryGet(inflight[3].query, "access_token") = Str("EAAB-tenant-1")
  /\ inflight[1].version = "v21.0" /\ inflight[2].version = "v20.0"

\* C17: a response with status 429 makes postForm, and so uploadAdImage,
\* fail with a RateLimit error that is retryable and whose retry-after is
\* the integer of the Retry-After header, or 60 without one.
C17_FormRateLimit ==
  (pc = "done" /\ op.name = "uploadAdImage" /\ resp # <<>> /\ resp[1].status = Num(429)) =>
    LET h == resp[1].retryAfter IN
    /\ outcome.kind = "threw"
    /\ outcome.error.name = "RateLimitError"
    /\ outcome.error.retryable
    /\ outcome.error.retryAfterSeconds = IF h = Str("30") THEN Num(30) ELSE Num(60)

(***************************************************************************)
(* Claims about the error envelope (checked under SpecFormat).             *)
(***************************************************************************)
\* the error that was formatted or tested, and the payload made of it
Caught == op.args[1]
Payload == outcome.value.payload

\* a member of the upstream error object, when there was one
Upstream(key) ==
  IF resp # <<>> /\ UpstreamError.t = "obj" THEN Get(UpstreamError, key) ELSE Undef

\* C18: for an error of the taxonomy, formatError returns a response marked
\* as an error whose message is "Error: " and the error's message, then
\* " - " and the upstream user-facing message when the upstream error
\* object gave one, whatever the kind of the error, then " (retryable)"
\* exactly when the error is retryable.
C18_MessageCarriesUserMsg ==
  (pc = "formatted" /\ IsError(Caught) /\ IsApiError(Caught)) =>
    LET um == Upstream("error_user_msg") IN
    /\ outcome.value.isError
    /\ Get(Payload, "error") =
         Str("Error: " \o Caught.message.v
               \o (IF um.t = "str" /\ um.v # "" THEN " - " \o um.v ELSE "")
               \o (IF Caught.retryable THEN " (retryable)" ELSE ""))

\* C19: whatever was caught, an error of the taxonomy or a failure of the
\* transport, the response is marked as an error and its payload holds a
\* message, the retryable flag, and the upstream trace id when the upstream
\* error object carried one.
C19_PayloadHasFlagAndTrace ==
  pc = "formatted" =>
    LET trace == Upstream("fbtrace_id") IN
    /\ outcome.value.isError
    /\ Get(Payload, "error").t = "str"
    /\ Get(Get(Payload, "details"), "retryable").t = "bool"
    /\ (trace.t = "str" /\ trace.v # "") => Get(Get(Payload, "details"), "fbTraceId") = trace

ListArgs == op.args[Len(op.args)]

\* the JSON text of one EQUAL filter
EqualFilter(field, value) ==
  "[{\"field\":\"" \o field \o "\",\"operator\":\"EQUAL\",\"value\":\"" \o value \o "\"}]"

\* C21: listAdSets called with a campaign id C sends, to the adsets
\* endpoint of the account, a filtering parameter whose text is the JSON of
\* [{field: campaign.id, operator: EQUAL, value: C}]; listAds called with an
\* ad-set id does the same with field adset.id to the ads endpoint; called
\* with no parent id they send no filtering parameter.
C21_ParentIdFilter ==
  (FirstFetch /\ op.name \in {"listAdSets", "listAds"}) =>
    LET sets == op.name = "listAdSets"
        parent == Get(ListArgs, IF sets THEN "campaignId" ELSE "adSetId")
        sent == QueryGet(inflight.query, "filtering")
    IN
    /\ inflight.method = "GET"
    /\ inflight.endpoint = "/" \o NormalizeAccountId(op.args[1])
                             \o (IF sets THEN "/adsets" ELSE "/ads")
    /\ Truthy(parent) =>
         sent = Str(EqualFilter(IF sets THEN "campaign.id" ELSE "adset.id", parent.v))
    /\ parent = Undef => sent = Absent

\* ad sets of campaign 120 are listed
C21_Witness ==
  /\ FirstFetch
  /\ op.name = "listAdSets"
  /\ Get(ListArgs, "campaignId") = Str("120")
  /\ inflight.endpoint = "/act_123/adsets"
  /\ QueryGet(inflight.query, "filtering") =
       Str("[{\"field\":\"campaign.id\",\"operator\":\"EQUAL\",\"value\":\"120\"}]")

\* C22: for every list operation, a cursor the caller gives as after or
\* before goes out under that name with the same text, and a cursor the
\* caller does not give is not in the query at all.
C22_CursorsThreaded ==
  (FirstFetch /\ op.name \in ListOperations) =>
    \A cursor \in {"after", "before"} :
      LET c == Get(ListArgs, cursor)
          sent == QueryGet(inflight.query, cursor)
      IN
      /\ c.t = "str" => sent = c
      /\ c = Undef => sent = Absent

\* a page after a cursor is asked for, with no before cursor
C22_Witness ==
  /\ FirstFetch
  /\ op.name = "listCampaigns"
  /\ Get(ListArgs, "after") = Str("QVFIU")
  /\ Get(ListArgs, "before") = Undef
  /\ QueryGet(inflight.query, "after") = Str("QVFIU")
  /\ "before" \notin QueryKeys(inflight.query)

(***************************************************************************)
(* Claim about where the token travels (checked under Spec).               *)
(***************************************************************************)
\* the token of the client the call in flight was made by
BoundToken == JSString(client.credentials.accessToken)

\* the token is in no header of the call in flight
NoTokenInHeaders ==
  \A i \in 1..Len(inflight.headers) :
    /\ inflight.headers[i][1] # "Authorization"
    /\ ~Includes(inflight.headers[i][2], BoundToken)

UpstreamCode == Get(UpstreamError, "code")

\* the codes the Authentication, Permission, RateLimit and Validation rules name
TypedCodes == {190, 10, 4, 17, 32, 613, 100} \cup 200..299

\* C24: for an upstream error object whose numeric code is none of the
\* codes of the Authentication, Permission, RateLimit and Validation rules
\* (0 and negative codes included), the classifier returns a Generic error
\* whose code is the decimal text of the upstream code, whose status is the
\* HTTP status of the response, and which is not retryable.
C24_GenericKeepsCode ==
  (pc = "classified" /\ UpstreamError.t = "obj" /\ UpstreamCode.t = "num"
     /\ UpstreamCode.v \notin TypedCodes) =>
    /\ Classified.name = "MetaAdsApiError"
    /\ Classified.code = Str(ToString(UpstreamCode.v))
    /\ Classified.statusCode = resp[1].status
    /\ ~Classified.retryable

(***************************************************************************)
(* Claims about deleting and about partial failure (checked under Spec).   *)
(***************************************************************************)
DeleteOperations == {"deleteCampaign", "deleteAdSet", "deleteAd", "deleteCustomAudience"}

\* the status of a response is a success status
SuccessStatus(r) == r.status.v \in 200..299

\* C25: a delete operation sends one DELETE request for the id it was
\* called with and no other request; when the response has a success
\* status, 204 or one with a body, it returns undefined, no object; when
\* the response has any other status it fails with the ApiError request
\* made of that response.
C25_DeleteIsVoid ==
  (op.name \in DeleteOperations /\ pc \in {"fetch", "done"}) =>
    /\ log = << [method |-> "DELETE", endpoint |-> "/" \o op.args[1]] >>
    /\ (pc = "done" /\ Len(resp) = 1 /\ SuccessStatus(resp[1])) => outcome = Returned(Undef)
    /\ (pc = "done" /\ Len(resp) = 1 /\ ~SuccessStatus(resp[1])) =>
         /\ outcome = Handled(1)
         /\ outcome.kind = "threw"
         /\ IsApiError(outcome.error)

\* a campaign is deleted and the upstream answers 200 with a body
C25_Witness ==
  /\ op.name = "deleteCampaign"
  /\ pc = "done"
  /\ Len(log) = 1
  /\ resp = << [status |-> Num(200), retryAfter |-> Null, body |-> Entity] >>
  /\ outcome = Returned(Undef)

(***************************************************************************)
(* More claims about the request primitive (checked under SpecRequest).    *)
(***************************************************************************)
\* the code of the error object in the body of the first response
BodyCode ==
  IF resp[1].body.t = "obj" /\ Get(resp[1].body, "error").t = "obj"
  THEN Get(Get(resp[1].body, "error"), "code")
  ELSE Undef

\* C26: a response whose status is a failure other than 429 and whose body
\* holds an error object with code 4, 17, 32 or 613 makes request fail with
\* a RateLimit error whose retry-after is 60, whatever the Retry-After
\* header of the response; the header is read for a 429 only.
C26_BodyRateLimitIs60 ==
  (pc = "done" /\ resp # <<>> /\ resp[1].status.v \notin 200..299
     /\ resp[1].status # Num(429)
     /\ BodyCode \in {Num(4), Num(17), Num(32), Num(613)}) =>
    /\ outcome.kind = "threw"
    /\ outcome.error.name = "RateLimitError"
    /\ outcome.error.retryAfterSeconds = Num(60)

\* a 400 with Retry-After: 30 and the upstream code 17
C26_Witness ==
  /\ pc = "done"
  /\ resp = << [status |-> Num(400), retryAfter |-> Str("30"),
                body |-> ErrorBody(17, "User request limit reached")] >>
  /\ outcome.kind = "threw"
  /\ outcome.error.name = "RateLimitError"
  /\ outcome.error.retryAfterSeconds = Num(60)

\* C27: when the POST of a create operation has succeeded and the GET that
\* follows it fails, the operation fails with the error of the GET: it
\* returns no id and no entity, and it has sent the POST and the GET and
\* nothing else, no DELETE and no second GET.
C27_GetFailureAfterCreate ==
  (op.name \in CreateOperations /\ Len(log) = 2 /\ pc = "done"
     /\ (Len(resp) = 2 => Handled(2).kind = "threw")) =>
    /\ Handled(1).kind = "returned"
    /\ outcome.kind = "threw"
    /\ Len(resp) = 2 => outcome = Handled(2)
    /\ log[1].method = "POST"
    /\ log[2].method = "GET"
    /\ inflight = NoCall

\* a campaign is created and the GET for it is answered 500
C27_Witness ==
  /\ op.name = "createCampaign"
  /\ pc = "done"
  /\ Len(log) = 2
  /\ resp = << [status |-> Num(200), retryAfter |-> Null, body |-> Created],
               [status |-> Num(500), retryAfter |-> Null, body |-> Unparsable] >>
  /\ outcome.kind = "threw"
  /\ outcome.error.statusCode = Num(500)

(***************************************************************************)
(* Claims about the flags of the errors.                                   *)
(***************************************************************************)
\* C28 (checked under Spec): every error of the taxonomy that ends a call,
\* made by the classifier from a body, made by request for a 429, or made
\* when the client is constructed, is retryable exactly when it is a
\* RateLimit error; a Generic error is never retryable.
C28_RetryableIffRateLimit ==
  (pc \in {"done", "rejected"} /\ outcome.kind = "threw" /\ IsApiError(outcome.error)) =>
    /\ outcome.error.retryable <=> outcome.error.name = "RateLimitError"
    /\ outcome.error.name = "MetaAdsApiError" => ~outcome.error.retryable

\* a list answered 400 with the upstream code 17: RateLimit from the body
C28_Witness ==
  /\ pc = "done"
  /\ op.name = "listCampaigns"
  /\ resp = << [status |-> Num(400), retryAfter |-> Null,
                body |-> ErrorBody(17, "User request limit reached")] >>
  /\ outcome.kind = "threw"
  /\ outcome.error.name = "RateLimitError"
  /\ outcome.error.retryable

\* C29 (checked under SpecClassify): an Authentication, Permission,
\* RateLimit or Validation error made by the classifier has status 401,
\* 403, 429 or 400, whatever the HTTP status of the response; a Generic
\* error has the HTTP status of the response.
C29_FixedStatusPerKind ==
  (pc = "classified" /\ IsApiError(Classified)) =>
    Classified.statusCode =
      CASE Classified.name = "AuthenticationError" -> Num(401)
        [] Classified.name = "PermissionError" -> Num(403)
        [] Classified.name = "RateLimitError" -> Num(429)
        [] Classified.name = "ValidationError" -> Num(400)
        [] OTHER -> resp[1].status

\* a 500 whose body holds the code 190 is classified with status 401
C29_Witness ==
  /\ pc = "classified"
  /\ resp[1].status = Num(500)
  /\ UpstreamCode = Num(190)
  /\ Classified.name = "AuthenticationError"
  /\ Classified.statusCode = Num(401)

(***************************************************************************)
(* Claim about falsy values in creates and updates (checked under Spec).   *)
(***************************************************************************)
BudgetFields == {"daily_budget", "lifetime_budget", "spend_cap"}

\* the members a create operation's input must have
RequiredFields(name) ==
  CASE name = "createCampaign" -> {"name", "objective"}
    [] name = "createAdSet" ->
         {"campaign_id", "name", "billing_event", "optimization_goal", "targeting"}
    [] name = "createAd" -> {"adset_id", "name", "creative"}
    [] name = "createCustomAudience" -> {"name", "subtype"}
    [] name = "createPixel" -> {"name"}
    [] OTHER -> {}

====
